---- MODULE Spec2Model ----
(***************************************************************************)
(* QueryBridge: the GraphQL -> XSB Datalog translator of                   *)
(* src/src/querybridge/translator.py, as a state machine.                  *)
(*                                                                         *)
(* A Python str is modelled as a sequence of one-character strings, so     *)
(* that upper(), startswith(), slicing and textual equality of rendered    *)
(* rules are computed on characters as the code computes them.             *)
(***************************************************************************)
EXTENDS Naturals, Sequences, FiniteSets, TLC

VARIABLES
  document,           \* the parsed GraphQL document handed to parse_query
  apply_demand,       \* the apply_demand flag of the compilation
  pc,                 \* position of the compilation in the pipeline
  error,              \* the exception that aborted the compilation, or "none"
  var_counter,        \* parse_query: next value of count(1)
  var_cache,          \* parse_query: path -> variable name
  query,              \* the selection tree (list of root QueryField)
  demand_facts,       \* generate_xsb_for_query: demand_facts
  demand_rules,       \* generate_xsb_for_query: demand_rules
  seen_demand_rules,  \* generate_xsb_for_query: seen_demand_rules
  demand_info_map,    \* generate_xsb_for_query: demand_info_map
  predicate_rules,    \* generate_xsb_for_query: predicate_rules
  answer_rules,       \* generate_xsb_for_query: answer_rules
  output,             \* the text returned by translate_graphql_to_xsb
  parsed,             \* the selection tree as parse_query returned it
  compiled,           \* every (input, output) pair returned so far
  facts,              \* the fact base (facts.P) the generated code runs on
  code_no,            \* run_test_for_dir: clauses generated without demand
  code_yes,           \* run_test_for_dir: clauses generated with demand
  res_no,             \* atoms derived so far from facts and code_no
  res_yes             \* atoms derived so far from facts and code_yes

vars == <<document, apply_demand, pc, error, var_counter, var_cache, query,
          demand_facts, demand_rules, seen_demand_rules, demand_info_map,
          predicate_rules, answer_rules, output, parsed, compiled,
          facts, code_no, code_yes, res_no, res_yes>>

---------------------------------------------------------------------------
(* Bounds of the model. *)

MaxNodes == 3            \* field selections in a generated query
MaxRecursionDepth == 6   \* nested Python calls before RecursionError
MaxCompilations == 3     \* compilations in one run of the repeat scenario
MaxEvalNodes == 2        \* field selections in a query that is run on facts
MaxMissingFacts == 2     \* facts a fact base may lack of the whole pool

---------------------------------------------------------------------------
(* Python string operations. *)

LowerChars == <<"a","b","c","d","e","f","g","h","i","j","k","l","m",
                "n","o","p","q","r","s","t","u","v","w","x","y","z">>
UpperChars == <<"A","B","C","D","E","F","G","H","I","J","K","L","M",
                "N","O","P","Q","R","S","T","U","V","W","X","Y","Z">>
DigitChars == <<"0","1","2","3","4","5","6","7","8","9">>

IndexIn(c, chars) ==
  IF \E i \in 1..Len(chars) : chars[i] = c
  THEN CHOOSE i \in 1..Len(chars) : chars[i] = c
  ELSE 0

upper_char(c) ==
  LET k == IndexIn(c, LowerChars) IN IF k = 0 THEN c ELSE UpperChars[k]

lower_char(c) ==
  LET k == IndexIn(c, UpperChars) IN IF k = 0 THEN c ELSE LowerChars[k]

capitalize(s) == IF s = <<>> THEN s ELSE <<upper_char(s[1])>> \o Tail(s)

upper(s) == [i \in 1..Len(s) |-> upper_char(s[i])]

lower(s) == [i \in 1..Len(s) |-> lower_char(s[i])]

startswith(s, p) == Len(p) <= Len(s) /\ SubSeq(s, 1, Len(p)) = p

endswith(s, p) ==
  Len(p) <= Len(s) /\ SubSeq(s, Len(s) - Len(p) + 1, Len(s)) = p

RECURSIVE str(_)
str(n) ==
  IF n < 10 THEN <<DigitChars[n + 1]>>
  ELSE str(n \div 10) \o <<DigitChars[(n % 10) + 1]>>

RECURSIVE join(_, _)
join(sep, parts) ==
  IF parts = <<>> THEN <<>>
  ELSE IF Len(parts) = 1 THEN parts[1]
  ELSE parts[1] \o sep \o join(sep, Tail(parts))

format_value(val) == <<"\"">> \o val \o <<"\"">>

---------------------------------------------------------------------------
(* The graphql-core AST that parse() hands to parse_query.  A name or an   *)
(* alias is a text; an absent alias or selection set is the empty          *)
(* sequence.                                                               *)

FieldNode(name, alias, arguments, selections) ==
  [kind |-> "Field", name |-> name, alias |-> alias,
   arguments |-> arguments, selections |-> selections]

FragmentSpreadNode(name) ==
  [kind |-> "FragmentSpread", name |-> name, alias |-> <<>>,
   arguments |-> <<>>, selections |-> <<>>]

InlineFragmentNode(selections) ==
  [kind |-> "InlineFragment", name |-> <<>>, alias |-> <<>>,
   arguments |-> <<>>, selections |-> selections]

OperationDefinitionNode(selections) ==
  [kind |-> "OperationDefinition", name |-> <<>>, selections |-> selections]

FragmentDefinitionNode(name, selections) ==
  [kind |-> "FragmentDefinition", name |-> name, selections |-> selections]

ArgumentNode(name, value) == [name |-> name, value |-> value]

\* value nodes: the kinds with a .value attribute carry it in "value"
StringValueNode(text) == [kind |-> "StringValue", value |-> text]
IntValueNode(text) == [kind |-> "IntValue", value |-> text]
BooleanValueNode(b) ==
  [kind |-> "BooleanValue", value |-> IF b THEN <<"T","r","u","e">> ELSE <<"F","a","l","s","e">>]
VariableNode(name) == [kind |-> "Variable", value |-> name]
ListValueNode == [kind |-> "ListValue", value |-> <<>>]

\* hasattr(arg.value, 'value')
has_value(value) == value.kind \in {"StringValue", "IntValue", "BooleanValue"}

---------------------------------------------------------------------------
(* QueryField and its derived properties. *)

QueryField(name, arguments, subfields, parent_var, child_var) ==
  [name |-> name, arguments |-> arguments, subfields |-> subfields,
   parent_var |-> parent_var, child_var |-> child_var]

NoField == QueryField(<<>>, <<>>, <<>>, <<>>, <<>>)

is_scalar(field) == Len(field.subfields) = 0

bound_mask(field) ==
  IF field.arguments = <<>> THEN <<"_">>
  ELSE [i \in 1..Len(field.arguments) |-> "B"]

bound_vals(field) == [i \in 1..Len(field.arguments) |-> field.arguments[i][2]]

DemandInfo(applied, adornment, demand_pred, magic_pred) ==
  [applied |-> applied, reason |-> <<>>, adornment |-> adornment,
   demand_pred |-> demand_pred, magic_pred |-> magic_pred]

---------------------------------------------------------------------------
(* parse_query.  The closure state (var_counter, var_cache) and a raised   *)
(* exception are threaded through the recursion as st.                     *)

ROOT == <<"R","O","O","T">>

\* fragment_map: the last definition of a name wins, as in a dict
fragment_names(doc) ==
  {doc[i].name : i \in {j \in 1..Len(doc) : doc[j].kind = "FragmentDefinition"}}

fragment_map(doc, name) ==
  LET last == CHOOSE i \in 1..Len(doc) :
                /\ doc[i].kind = "FragmentDefinition"
                /\ doc[i].name = name
                /\ \A j \in (i + 1)..Len(doc) :
                     ~(doc[j].kind = "FragmentDefinition" /\ doc[j].name = name)
  IN doc[last]

fresh_var(st, base) == upper(base) \o <<"_">> \o str(st.counter)

cached_var(cache, path) == (CHOOSE e \in cache : e[1] = path)[2]

\* var_for_path with a counter that is read and never advanced
var_for_path_same_counter(st, path, base) ==
  IF \E e \in st.cache : e[1] = path
  THEN st
  ELSE [st EXCEPT !.cache = st.cache \cup {<<path, fresh_var(st, base)>>}]

\* var_for_path: the state after the call; the variable is then cached
var_for_path(st, path, base) ==
  IF \E e \in st.cache : e[1] = path
  THEN st
  ELSE [st EXCEPT !.cache = st.cache \cup {<<path, fresh_var(st, base)>>},
                  !.counter = st.counter + 1]

extract_arguments(node) ==
  LET keep == SelectSeq(node.arguments, LAMBDA arg : has_value(arg.value))
  IN [i \in 1..Len(keep) |-> <<keep[i].name, keep[i].value.value>>]

RECURSIVE build_query_field(_, _, _, _, _, _)
RECURSIVE build_subfields(_, _, _, _, _, _, _)
RECURSIVE build_fragment_fields(_, _, _, _, _, _, _)

\* returns [field, st]
build_query_field(doc, node, parent_var, parent_path, st, depth) ==
  IF depth > MaxRecursionDepth
  THEN [field |-> NoField, st |-> [st EXCEPT !.error = "RecursionError"]]
  ELSE
    LET name == IF node.alias # <<>> THEN node.alias ELSE node.name
        path == IF parent_path # <<>> THEN parent_path \o <<".">> \o name ELSE name
        st1 == var_for_path(st, path, name)
        child_var == cached_var(st1.cache, path)
        arguments == extract_arguments(node)
        sub == build_subfields(doc, node.selections, 1, child_var, path,
                               [fields |-> <<>>, st |-> st1], depth)
    IN [field |-> QueryField(name, arguments, sub.fields, parent_var, child_var),
        st |-> sub.st]

\* the loop over fragment.selection_set.selections (FieldNode members only)
build_fragment_fields(doc, selections, i, child_var, path, acc, depth) ==
  IF i > Len(selections) \/ acc.st.error # "none" THEN acc
  ELSE IF selections[i].kind = "Field"
  THEN LET r == build_query_field(doc, selections[i], child_var, path,
                                  acc.st, depth + 1)
       IN build_fragment_fields(doc, selections, i + 1, child_var, path,
            [fields |-> Append(acc.fields, r.field), st |-> r.st], depth)
  ELSE build_fragment_fields(doc, selections, i + 1, child_var, path, acc, depth)

\* the loop over node.selection_set.selections
build_subfields(doc, selections, i, child_var, path, acc, depth) ==
  IF i > Len(selections) \/ acc.st.error # "none" THEN acc
  ELSE
    LET selection == selections[i] IN
    CASE selection.kind = "Field" ->
           LET r == build_query_field(doc, selection, child_var, path,
                                      acc.st, depth + 1)
           IN build_subfields(doc, selections, i + 1, child_var, path,
                [fields |-> Append(acc.fields, r.field), st |-> r.st], depth)
      [] selection.kind = "FragmentSpread" ->
           IF selection.name \notin fragment_names(doc)
           THEN [acc EXCEPT !.st.error = "KeyError"]
           ELSE build_subfields(doc, selections, i + 1, child_var, path,
                  build_fragment_fields(doc,
                    fragment_map(doc, selection.name).selections, 1,
                    child_var, path, acc, depth),
                  depth)
      [] selection.kind = "InlineFragment" ->
           build_subfields(doc, selections, i + 1, child_var, path,
             build_fragment_fields(doc, selection.selections, 1,
                                   child_var, path, acc, depth),
             depth)

\* the loop over one operation's root selections (FieldNode members only)
RECURSIVE build_root_fields(_, _, _, _)
build_root_fields(doc, selections, i, acc) ==
  IF i > Len(selections) \/ acc.st.error # "none" THEN acc
  ELSE IF selections[i].kind = "Field"
  THEN LET r == build_query_field(doc, selections[i], ROOT, <<>>, acc.st, 1)
       IN build_root_fields(doc, selections, i + 1,
            [fields |-> acc.fields \o <<r.field>>, st |-> r.st])
  ELSE build_root_fields(doc, selections, i + 1, acc)

\* the loop over document.definitions
RECURSIVE parse_definitions(_, _, _)
parse_definitions(doc, d, acc) ==
  IF d > Len(doc) \/ acc.st.error # "none" THEN acc
  ELSE IF doc[d].kind = "OperationDefinition"
  THEN parse_definitions(doc, d + 1,
         build_root_fields(doc, doc[d].selections, 1, acc))
  ELSE parse_definitions(doc, d + 1, acc)

\* returns [fields, st] from a fresh counter and an empty cache
parse_query(doc, st0) ==
  parse_definitions(doc, 1, [fields |-> <<>>, st |-> st0])

\* a counter that outlives the call
continued_parser_state ==
  [counter |-> var_counter, cache |-> {}, error |-> "none"]

\* lines 269-270: var_counter = count(1), var_cache = {}
fresh_parser_state == [counter |-> 1, cache |-> {}, error |-> "none"]

---------------------------------------------------------------------------
(* Output lines.  The code renders every line with an f-string; the model  *)
(* keeps the parts of the f-string and renders them with render_line, so   *)
(* that a line is compared as text and can also be run as a clause.        *)

Call(pred, args) == [kind |-> "call", pred |-> pred, args |-> args]

\* an infix goal "lhs op rhs"
Infix(lhs, op, rhs) == [kind |-> "infix", pred |-> op, args |-> <<lhs, rhs>>]

Clause(head, body) ==
  [kind |-> "clause", head |-> head, body |-> body, text |-> <<>>]

Comment(text) ==
  [kind |-> "comment", head |-> Call(<<>>, <<>>), body |-> <<>>, text |-> text]

render_goal(g) ==
  IF g.kind = "infix"
  THEN g.args[1] \o <<" ">> \o g.pred \o <<" ">> \o g.args[2]
  ELSE IF g.args = <<>> THEN g.pred
  ELSE g.pred \o <<"(">> \o join(<<","," ">>, g.args) \o <<")">>

render_goals(goals) == join(<<","," ">>, [i \in 1..Len(goals) |-> render_goal(goals[i])])

render_line(l) ==
  IF l.kind = "comment" THEN l.text
  ELSE IF l.body = <<>> THEN render_goal(l.head) \o <<".">>
  ELSE render_goal(l.head) \o <<" ",":","-"," ">> \o render_goals(l.body) \o <<".">>

---------------------------------------------------------------------------
(* generate_demand_transformation.  acc = [demands, rules, seen] are the   *)
(* three accumulators the code mutates; the result is [info, acc].         *)

NoDemandInfo == DemandInfo(FALSE, <<>>, <<>>, <<>>)

\* append a comment and a line to a list unless the line's text was seen
append_unseen(list, seen, comment, line) ==
  IF render_line(line) \in seen THEN list
  ELSE list \o <<Comment(comment), line>>

seed_fact(node, demand_pred) ==
  Clause(Call(demand_pred,
              [i \in 1..Len(node.arguments) |-> format_value(bound_vals(node)[i])]),
         <<>>)

\* a variant whose magic rule is about the node's own variable
magic_rule_of_own_var(node, demand_pred, magic_pred) ==
  IF node.arguments # <<>>
  THEN Clause(Call(magic_pred, <<node.child_var>>),
              <<Call(demand_pred,
                     [i \in 1..Len(node.arguments) |->
                        format_value(bound_vals(node)[i])])>>)
  ELSE Clause(Call(magic_pred, <<node.parent_var>>),
              <<Call(demand_pred, <<node.parent_var>>)>>)

magic_rule_of(node, demand_pred, magic_pred) ==
  IF node.arguments # <<>>
  THEN Clause(Call(magic_pred, <<node.parent_var>>),
              <<Call(demand_pred,
                     [i \in 1..Len(node.arguments) |->
                        format_value(bound_vals(node)[i])])>>)
  ELSE Clause(Call(magic_pred, <<node.parent_var>>),
              <<Call(demand_pred, <<node.parent_var>>)>>)

nested_demand_rule(node, demand_pred) ==
  Clause(Call(demand_pred, <<node.parent_var>>),
         <<Call(<<"m","_">> \o node.name \o <<"_","e","x","t">>, <<node.parent_var>>)>>)

propagate_rule(node, magic_pred, subfield, sub_info) ==
  Clause(Call(sub_info.demand_pred, <<subfield.parent_var>>),
         <<Call(magic_pred, <<node.parent_var>>),
           Call(node.name \o <<"_","e","x","t">>, <<node.parent_var, subfield.parent_var>>)>>)

\* a demand stage that emits no seed fact
add_seed_dropped(node, demand_pred, acc, depth) == acc

add_seed(node, demand_pred, acc, depth) ==
  IF depth = 0 /\ node.arguments # <<>>
  THEN LET seed == seed_fact(node, demand_pred) IN
       [acc EXCEPT
          !.demands = append_unseen(acc.demands, acc.seen,
                        <<"%"," ","S","e","e","d"," ","d","e","m","a","n","d"," ","w","i","t","h"," ","b","o","u","n","d"," ","a","r","g","u","m","e","n","t","s"," ","f","o","r"," ">> \o node.name,
                        seed),
          !.seen = acc.seen \cup {render_line(seed)}]
  ELSE acc

add_nested_demand(node, demand_pred, acc, depth) ==
  IF node.arguments = <<>> /\ depth > 0
  THEN LET demand_rule == nested_demand_rule(node, demand_pred) IN
       [acc EXCEPT
          !.rules = append_unseen(acc.rules, acc.seen,
                      <<"%"," ","P","r","o","p","a","g","a","t","e"," ","d","e","m","a","n","d"," ","t","o"," ">> \o node.name \o <<" ","f","i","e","l","d","s">>,
                      demand_rule),
          !.seen = acc.seen \cup {render_line(demand_rule)}]
  ELSE acc

add_magic(node, demand_pred, magic_pred, acc) ==
  LET magic_rule == magic_rule_of(node, demand_pred, magic_pred) IN
  [acc EXCEPT
     !.rules = append_unseen(acc.rules, acc.seen,
                 <<"%"," ","M","a","g","i","c"," ","p","r","e","d","i","c","a","t","e"," ","f","o","r"," ">> \o node.name, magic_rule),
     !.seen = acc.seen \cup {render_line(magic_rule)}]

\* a variant that propagates demand to scalar subfields too
add_propagate_to_scalars(node, magic_pred, subfield, sub_info, i, acc) ==
  IF ~sub_info.applied THEN acc
  ELSE
    LET rules1 == IF i = 1
                  THEN Append(acc.rules,
                         Comment(<<"%"," ","P","r","o","p","a","g","a","t","e"," ","d","e","m","a","n","d"," ","f","r","o","m"," ">> \o node.name
                                 \o <<" ","t","o"," ","i","t","s"," ","f","i","e","l","d","s">>))
                  ELSE acc.rules
        propagate == propagate_rule(node, magic_pred, subfield, sub_info)
    IN IF render_line(propagate) \in acc.seen
       THEN [acc EXCEPT !.rules = rules1]
       ELSE [acc EXCEPT !.rules = Append(rules1, propagate),
                        !.seen = acc.seen \cup {render_line(propagate)}]

add_propagate(node, magic_pred, subfield, sub_info, i, acc) ==
  IF ~sub_info.applied THEN acc
  ELSE
    LET rules1 == IF i = 1
                  THEN Append(acc.rules,
                         Comment(<<"%"," ","P","r","o","p","a","g","a","t","e"," ","d","e","m","a","n","d"," ","f","r","o","m"," ">> \o node.name
                                 \o <<" ","t","o"," ","i","t","s"," ","f","i","e","l","d","s">>))
                  ELSE acc.rules
        propagate == propagate_rule(node, magic_pred, subfield, sub_info)
    IN IF is_scalar(subfield) \/ render_line(propagate) \in acc.seen
       THEN [acc EXCEPT !.rules = rules1]
       ELSE [acc EXCEPT !.rules = Append(rules1, propagate),
                        !.seen = acc.seen \cup {render_line(propagate)}]

demand_reason(node, depth) ==
  IF node.arguments # <<>>
  THEN <<"i","t"," ","h","a","s"," ">> \o str(Len(node.arguments)) \o <<" ","b","o","u","n","d"," ","a","r","g","u","m","e","n","t","(","s",")">>
  ELSE <<"i","t","'","s"," ","a"," ","n","e","s","t","e","d"," ","f","i","e","l","d"," ","a","t"," ","d","e","p","t","h"," ">> \o str(depth)

RECURSIVE generate_demand_transformation(_, _, _)
RECURSIVE demand_subfields(_, _, _, _, _)

generate_demand_transformation(node, acc, depth) ==
  IF node.arguments = <<>> /\ depth = 0
  THEN [info |-> NoDemandInfo, acc |-> acc]
  ELSE
    LET adornment == bound_mask(node)
        demand_pred == <<"d","e","m","a","n","d","_">> \o node.name \o <<"_">> \o adornment
        magic_pred == <<"m","_">> \o node.name \o <<"_">> \o adornment
        info == [DemandInfo(TRUE, adornment, demand_pred, magic_pred)
                   EXCEPT !.reason = demand_reason(node, depth)]
        acc1 == add_seed(node, demand_pred, acc, depth)
        acc2 == add_nested_demand(node, demand_pred, acc1, depth)
        acc3 == add_magic(node, demand_pred, magic_pred, acc2)
    IN [info |-> info,
        acc |-> demand_subfields(node, magic_pred, 1, acc3, depth)]

\* the loop "for i, subfield in enumerate(node.subfields)"
demand_subfields(node, magic_pred, i, acc, depth) ==
  IF i > Len(node.subfields) THEN acc
  ELSE
    LET subfield == node.subfields[i]
        sub == generate_demand_transformation(subfield, acc, depth + 1)
    IN demand_subfields(node, magic_pred, i + 1,
         add_propagate(node, magic_pred, subfield, sub.info, i, sub.acc), depth)

\* dict assignment: an existing key keeps its position
dict_set(map, key, value) ==
  IF \E i \in 1..Len(map) : map[i][1] = key
  THEN [i \in 1..Len(map) |-> IF map[i][1] = key THEN <<key, value>> ELSE map[i]]
  ELSE Append(map, <<key, value>>)

dict_get(map, key, default) ==
  IF \E i \in 1..Len(map) : map[i][1] = key
  THEN (CHOOSE e \in {map[i] : i \in 1..Len(map)} : e[1] = key)[2]
  ELSE default

\* the loop "for field in query" of the demand stage: [acc, map]
RECURSIVE demand_roots(_, _, _)
demand_roots(fields, i, st) ==
  IF i > Len(fields) THEN st
  ELSE
    LET r == generate_demand_transformation(fields[i], st.acc, 0)
    IN demand_roots(fields, i + 1,
         [acc |-> r.acc,
          map |-> IF r.info.applied
                  THEN dict_set(st.map, fields[i].name, r.info)
                  ELSE st.map])

---------------------------------------------------------------------------
(* generate_predicate_rules: [rules, field], the rules appended and the    *)
(* field as the call leaves it (parent_var may have been reassigned).      *)

is_bool_text(arg_value) == lower(arg_value) \in {<<"t","r","u","e">>, <<"f","a","l","s","e">>}

has_filter_args(field) ==
  \E i \in 1..Len(field.arguments) :
    \/ startswith(field.arguments[i][1], <<"m","i","n">>)
    \/ startswith(field.arguments[i][1], <<"m","a","x">>)
    \/ is_bool_text(field.arguments[i][2])

LookupNames == {<<"i","d">>, <<"n","a","m","e">>, <<"k","e","y">>, <<"s","l","u","g">>, <<"c","o","d","e">>}

has_lookup_args(field) ==
  \E i \in 1..Len(field.arguments) : field.arguments[i][1] \in LookupNames

is_filtered_collection(field) ==
  /\ field.arguments # <<>>
  /\ ~is_scalar(field)
  /\ has_filter_args(field)
  /\ ~has_lookup_args(field)

singular_name(field) ==
  IF endswith(field.name, <<"s">>)
  THEN SubSeq(field.name, 1, Len(field.name) - 1)
  ELSE field.name

record_var(field) == upper(singular_name(field)) \o <<"_","I","D">>

\* a variant whose comparison variable is built from the variable the
\* filter is about
argument_filters_record_var(field, arg) ==
  LET arg_name == arg[1]
      arg_value == arg[2]
      field_name == lower(SubSeq(arg_name, 4, Len(arg_name)))
      cmp_var == upper(field_name) \o <<"_">> \o field.parent_var
  IN IF startswith(arg_name, <<"m","i","n">>)
     THEN <<Call(field_name \o <<"_","e","x","t">>, <<field.parent_var, cmp_var>>),
            Infix(cmp_var, <<"@",">","=">>, arg_value)>>
     ELSE IF startswith(arg_name, <<"m","a","x">>)
     THEN <<Call(field_name \o <<"_","e","x","t">>, <<field.parent_var, cmp_var>>),
            Infix(cmp_var, <<"@","=","<">>, arg_value)>>
     ELSE IF is_bool_text(arg_value)
     THEN <<Call(arg_name \o <<"_","e","x","t">>, <<field.parent_var, lower(arg_value)>>)>>
     ELSE <<Call(arg_name \o <<"_","e","x","t">>,
                 <<field.parent_var, format_value(arg_value)>>)>>

\* a variant whose exact-match goal is about the node's own variable
argument_filters_own_var(field, arg) ==
  LET arg_name == arg[1]
      arg_value == arg[2]
      field_name == lower(SubSeq(arg_name, 4, Len(arg_name)))
      cmp_var == upper(field_name) \o <<"_">> \o field.child_var
  IN IF startswith(arg_name, <<"m","i","n">>)
     THEN <<Call(field_name \o <<"_","e","x","t">>, <<field.parent_var, cmp_var>>),
            Infix(cmp_var, <<"@",">","=">>, arg_value)>>
     ELSE IF startswith(arg_name, <<"m","a","x">>)
     THEN <<Call(field_name \o <<"_","e","x","t">>, <<field.parent_var, cmp_var>>),
            Infix(cmp_var, <<"@","=","<">>, arg_value)>>
     ELSE IF is_bool_text(arg_value)
     THEN <<Call(arg_name \o <<"_","e","x","t">>, <<field.parent_var, lower(arg_value)>>)>>
     ELSE <<Call(arg_name \o <<"_","e","x","t">>,
                 <<field.child_var, format_value(arg_value)>>)>>

\* the filter goals of one argument
argument_filters(field, arg) ==
  LET arg_name == arg[1]
      arg_value == arg[2]
      field_name == lower(SubSeq(arg_name, 4, Len(arg_name)))
      cmp_var == upper(field_name) \o <<"_">> \o field.child_var
  IN IF startswith(arg_name, <<"m","i","n">>)
     THEN <<Call(field_name \o <<"_","e","x","t">>, <<field.parent_var, cmp_var>>),
            Infix(cmp_var, <<"@",">","=">>, arg_value)>>
     ELSE IF startswith(arg_name, <<"m","a","x">>)
     THEN <<Call(field_name \o <<"_","e","x","t">>, <<field.parent_var, cmp_var>>),
            Infix(cmp_var, <<"@","=","<">>, arg_value)>>
     ELSE IF is_bool_text(arg_value)
     THEN <<Call(arg_name \o <<"_","e","x","t">>, <<field.parent_var, lower(arg_value)>>)>>
     ELSE <<Call(arg_name \o <<"_","e","x","t">>,
                 <<field.parent_var, format_value(arg_value)>>)>>

RECURSIVE all_argument_filters(_, _)
all_argument_filters(field, i) ==
  IF i > Len(field.arguments) THEN <<>>
  ELSE argument_filters(field, field.arguments[i])
       \o all_argument_filters(field, i + 1)

\* line 516: field.parent_var = current_var
rebind_parent_var(field) ==
  IF is_filtered_collection(field)
  THEN [field EXCEPT !.parent_var = record_var(field)]
  ELSE field

\* a variant that names the external predicate of a node by its whole path
result_rule_path_ext(field0, demand_info, path) ==
  LET pred_name == path \o field0.name \o <<"_","r","e","s","u","l","t">>
      ext_name == path \o field0.name \o <<"_","e","x","t">>
      pred_signature ==
        IF is_scalar(field0)
        THEN Call(pred_name, <<field0.parent_var, field0.child_var>>)
        ELSE Call(pred_name, <<field0.parent_var>>)
      magic == IF demand_info.applied
               THEN <<Call(demand_info.magic_pred, <<field0.parent_var>>)>>
               ELSE <<>>
      ext_pred ==
        IF is_scalar(field0)
        THEN Call(ext_name, <<field0.parent_var, field0.child_var>>)
        ELSE Call(ext_name, <<field0.parent_var>>)
      record == IF is_filtered_collection(field0)
                THEN <<Call(singular_name(field0) \o <<"_","e","x","t">>,
                            <<field0.parent_var, record_var(field0)>>)>>
                ELSE <<>>
      field == rebind_parent_var(field0)
  IN Clause(pred_signature,
            magic \o <<ext_pred>> \o record \o all_argument_filters(field, 1))

result_rule(field0, demand_info, path) ==
  LET pred_name == path \o field0.name \o <<"_","r","e","s","u","l","t">>
      pred_signature ==
        IF is_scalar(field0)
        THEN Call(pred_name, <<field0.parent_var, field0.child_var>>)
        ELSE Call(pred_name, <<field0.parent_var>>)
      magic == IF demand_info.applied
               THEN <<Call(demand_info.magic_pred, <<field0.parent_var>>)>>
               ELSE <<>>
      ext_pred ==
        IF is_scalar(field0)
        THEN Call(field0.name \o <<"_","e","x","t">>, <<field0.parent_var, field0.child_var>>)
        ELSE Call(field0.name \o <<"_","e","x","t">>, <<field0.parent_var>>)
      record == IF is_filtered_collection(field0)
                THEN <<Call(singular_name(field0) \o <<"_","e","x","t">>,
                            <<field0.parent_var, record_var(field0)>>)>>
                ELSE <<>>
      field == rebind_parent_var(field0)
  IN Clause(pred_signature,
            magic \o <<ext_pred>> \o record \o all_argument_filters(field, 1))

RECURSIVE generate_predicate_rules(_, _, _, _)
RECURSIVE predicate_subfields(_, _, _, _, _)

generate_predicate_rules(field0, rules, demand_info, path) ==
  LET rule == result_rule(field0, demand_info, path)
      field == rebind_parent_var(field0)
      new_path == path \o field.name \o <<"_">>
      sub == predicate_subfields(field.subfields, 1, Append(rules, rule),
                                 new_path, <<>>)
  IN [rules |-> sub.rules, field |-> [field EXCEPT !.subfields = sub.fields]]

\* the loop "for subfield in field.subfields"
predicate_subfields(subfields, i, rules, new_path, done) ==
  IF i > Len(subfields) THEN [rules |-> rules, fields |-> done]
  ELSE
    LET r == generate_predicate_rules(subfields[i], rules, NoDemandInfo, new_path)
    IN predicate_subfields(subfields, i + 1, r.rules, new_path,
                           Append(done, r.field))

\* the loop "for field in query" of the rule stage: [rules, fields]
RECURSIVE predicate_roots(_, _, _, _, _)
predicate_roots(fields, i, map, rules, done) ==
  IF i > Len(fields) THEN [rules |-> rules, fields |-> done]
  ELSE
    LET demand_info == dict_get(map, fields[i].name, NoDemandInfo)
        header == Comment(<<"\n","%"," ","R","u","l","e","s"," ","f","o","r"," ","f","i","e","l","d",":"," ">> \o fields[i].name)
        r == generate_predicate_rules(fields[i], Append(rules, header),
                                      demand_info, <<>>)
    IN predicate_roots(fields, i + 1, map, r.rules, Append(done, r.field))

---------------------------------------------------------------------------
(* generate_answer_predicate.  acc = [body_parts, field_vars]; the         *)
(* variable_map of the code is written and never read.                     *)

\* the name line 580 would give with capitalize() in place of upper()
head_var_capitalized(current_path) == capitalize(current_path)

\* line 580: the head variable of a scalar leaf
head_var(current_path) == upper(current_path)

RECURSIVE process_field(_, _, _, _)
RECURSIVE process_subfields(_, _, _, _, _)

process_field(field, path, parent_path, acc) ==
  LET current_path == path \o field.name IN
  IF is_scalar(field)
  THEN
    LET var_name == head_var(current_path) IN
    [field_vars |-> Append(acc.field_vars, var_name),
     body_parts |->
       IF parent_path = <<>>
       THEN acc.body_parts \o
            <<Call(field.name \o <<"_","e","x","t">>, <<ROOT, field.child_var>>),
              Call(field.name \o <<"_","r","e","s","u","l","t">>, <<ROOT, var_name>>)>>
       ELSE Append(acc.body_parts,
              Call(parent_path \o field.name \o <<"_","r","e","s","u","l","t">>,
                   <<field.parent_var, var_name>>))]
  ELSE
    LET own ==
          IF parent_path = <<>>
          THEN <<Call(field.name \o <<"_","e","x","t">>, <<field.child_var>>),
                 Call(field.name \o <<"_","r","e","s","u","l","t">>, <<ROOT>>)>>
          ELSE <<Call(parent_path \o field.name \o <<"_","r","e","s","u","l","t">>,
                      <<field.parent_var>>)>>
    IN process_subfields(field.subfields, 1, current_path \o <<"_">>,
                         current_path \o <<"_">>,
                         [acc EXCEPT !.body_parts = acc.body_parts \o own])

process_subfields(subfields, i, new_path, new_parent_path, acc) ==
  IF i > Len(subfields) THEN acc
  ELSE process_subfields(subfields, i + 1, new_path, new_parent_path,
         process_field(subfields[i], new_path, new_parent_path, acc))

\* lines 611-614: the goals relating a root field to its subfields
link_goals(field) ==
  IF field.parent_var # <<>> /\ field.child_var # <<>> /\ ~is_scalar(field)
  THEN [i \in 1..Len(field.subfields) |->
          Call(field.name \o <<"_">> \o field.subfields[i].name \o <<"_","r","e","s","u","l","t">>,
               <<field.child_var, field.subfields[i].child_var>>)]
  ELSE <<>>

RECURSIVE process_roots(_, _, _)
process_roots(root_fields, i, acc) ==
  IF i > Len(root_fields) THEN acc
  ELSE
    LET a == process_field(root_fields[i], <<>>, <<>>, acc)
    IN process_roots(root_fields, i + 1,
         [a EXCEPT !.body_parts = a.body_parts \o link_goals(root_fields[i])])

\* a variant that keeps every goal
unique_parts_keep_all(parts, i, seen) == SubSeq(parts, i, Len(parts))

\* lines 617-622: drop the goals whose text occurred before
RECURSIVE unique_parts(_, _, _)
unique_parts(parts, i, seen) ==
  IF i > Len(parts) THEN <<>>
  ELSE IF render_goal(parts[i]) \in seen
  THEN unique_parts(parts, i + 1, seen)
  ELSE <<parts[i]>> \o unique_parts(parts, i + 1, seen \cup {render_goal(parts[i])})

\* lines 634-647: the test the answer assembler applies to a root field
is_filtering_query(field) ==
  /\ field.arguments # <<>>
  /\ has_filter_args(field)
  /\ ~has_lookup_args(field)

filtered_parts(field) ==
  <<Call(field.name \o <<"_","e","x","t">>, <<ROOT>>),
    Call(field.name \o <<"_","r","e","s","u","l","t">>, <<ROOT>>),
    Call(singular_name(field) \o <<"_","e","x","t">>, <<ROOT, record_var(field)>>),
    Infix(upper(singular_name(field)) \o <<"_","1">>, <<"=">>, record_var(field))>>

other_parts(field, parts) ==
  SelectSeq(parts, LAMBDA part :
    /\ ~startswith(render_goal(part), field.name \o <<"_","e","x","t">>)
    /\ ~startswith(render_goal(part), field.name \o <<"_","r","e","s","u","l","t">>))

\* lines 630-669: the first filtering root field rewrites the body
splice_prologue(root_fields, parts) ==
  IF \E i \in 1..Len(root_fields) : is_filtering_query(root_fields[i])
  THEN LET first == CHOOSE i \in 1..Len(root_fields) :
                      /\ is_filtering_query(root_fields[i])
                      /\ \A j \in 1..(i - 1) : ~is_filtering_query(root_fields[j])
       IN filtered_parts(root_fields[first])
          \o other_parts(root_fields[first], parts)
  ELSE parts

\* the sequence without its repeated members
RECURSIVE distinct_members(_)
distinct_members(s) ==
  IF s = <<>> THEN <<>>
  ELSE LET rest == distinct_members(SubSeq(s, 1, Len(s) - 1))
       IN IF \E i \in 1..(Len(s) - 1) : s[i] = s[Len(s)]
          THEN rest ELSE Append(rest, s[Len(s)])

\* the rule an assembler that lists each head variable once would emit
answer_clause_distinct_vars(root_fields) ==
  LET acc == process_roots(root_fields, 1,
                           [body_parts |-> <<>>, field_vars |-> <<>>])
      unique_body_parts == unique_parts(acc.body_parts, 1, {})
  IN IF acc.field_vars # <<>>
     THEN Clause(Call(<<"a","n","s">>, distinct_members(acc.field_vars)),
                 splice_prologue(root_fields, unique_body_parts))
     ELSE Clause(Call(<<"a","n","s">>, <<>>), <<Call(<<"t","r","u","e">>, <<>>)>>)

answer_clause(root_fields) ==
  LET acc == process_roots(root_fields, 1,
                           [body_parts |-> <<>>, field_vars |-> <<>>])
      unique_body_parts == unique_parts(acc.body_parts, 1, {})
  IN IF acc.field_vars # <<>>
     THEN Clause(Call(<<"a","n","s">>, acc.field_vars),
                 splice_prologue(root_fields, unique_body_parts))
     ELSE Clause(Call(<<"a","n","s">>, <<>>), <<Call(<<"t","r","u","e">>, <<>>)>>)

generate_answer_predicate(root_fields, rules) ==
  rules \o <<Comment(<<"%"," ","F","i","n","a","l"," ","a","n","s","w","e","r"," ","p","r","e","d","i","c","a","t","e"," ","c","o","m","b","i","n","i","n","g"," ","a","l","l"," ","q","u","e","r","y"," ","r","e","s","u","l","t","s">>),
             answer_clause(root_fields)>>

---------------------------------------------------------------------------
(* generate_xsb_for_query: the sections and the returned text. *)

render_lines(lines) ==
  join(<<"\n">>, [i \in 1..Len(lines) |-> render_line(lines[i])])

header_section(fields, demand) ==
  IF fields = <<>> THEN <<>>
  ELSE <<<<"%"," ","X","S","B"," ","D","a","t","a","l","o","g"," ","g","e","n","e","r","a","t","e","d"," ","f","r","o","m"," ","G","r","a","p","h","Q","L"," ","q","u","e","r","y"," ","w","i","t","h"," ","r","o","o","t"," ","f","i","e","l","d","s",":"," ">>
         \o join(<<","," ">>, [i \in 1..Len(fields) |-> fields[i].name])
         \o <<"\n","%"," ">>
         \o (IF demand THEN <<"W","i","t","h">> ELSE <<"W","i","t","h","o","u","t">>)
         \o <<" ","d","e","m","a","n","d"," ","t","r","a","n","s","f","o","r","m","a","t","i","o","n">>>>

demand_sections(demand, d_facts, d_rules) ==
  IF demand /\ (Len(d_facts) > 1 \/ d_rules # <<>>)
  THEN <<render_lines(d_facts), render_lines(d_rules)>>
  ELSE <<>>

log_message(info) ==
  IF ~info.applied THEN <<"N","o"," ","d","e","m","a","n","d"," ","t","r","a","n","s","f","o","r","m","a","t","i","o","n"," ","a","p","p","l","i","e","d">>
  ELSE <<"A","p","p","l","i","e","d"," ","d","e","m","a","n","d"," ","t","r","a","n","s","f","o","r","m","a","t","i","o","n"," ","'">> \o info.demand_pred \o <<"'"," ","(">>
       \o info.adornment \o <<")"," ","b","e","c","a","u","s","e"," ">> \o info.reason

summary_section(map) ==
  IF map = <<>> THEN <<>>
  ELSE <<join(<<"\n">>,
           <<<<"%"," ","D","e","m","a","n","d"," ","t","r","a","n","s","f","o","r","m","a","t","i","o","n"," ","s","u","m","m","a","r","y">>>> \o
           [i \in 1..Len(map) |-> <<"%"," ","N","O","T","E",":"," ">> \o log_message(map[i][2])])>>

result_text(fields, demand, d_facts, d_rules, p_rules, a_rules, map) ==
  join(<<"\n","\n">>,
       header_section(fields, demand)
       \o demand_sections(demand, d_facts, d_rules)
       \o <<render_lines(p_rules)>>
       \o <<render_lines(a_rules)>>
       \o summary_section(map))

\* the clauses of a generated program, in output order
clauses_of(lines) == SelectSeq(lines, LAMBDA l : l.kind = "clause")

---------------------------------------------------------------------------
(* The query documents the model compiles. *)

Arg(name, value) == ArgumentNode(name, value)

Label(name, arguments) == [name |-> name, arguments |-> arguments]

FieldLabels ==
  { Label(<<"n","a","m","e">>, <<>>),
    Label(<<"u","s","e","r">>, <<>>),
    Label(<<"u","s","e","r">>, <<Arg(<<"i","d">>, StringValueNode(<<"u","1">>))>>),
    Label(<<"u","s","e","r","s">>, <<Arg(<<"m","i","n","A","g","e">>, IntValueNode(<<"1","8">>))>>),
    Label(<<"u","s","e","r","s">>, <<Arg(<<"a","c","t","i","v","e">>, BooleanValueNode(TRUE))>>) }

\* every ordered forest of exactly n field selections
RECURSIVE Forests(_)
RECURSIVE Trees(_)
Trees(n) ==
  { FieldNode(l.name, <<>>, l.arguments, kids) :
      l \in FieldLabels, kids \in Forests(n - 1) }

Forests(n) ==
  IF n = 0 THEN {<<>>}
  ELSE UNION { { <<t>> \o rest : t \in Trees(k), rest \in Forests(n - k) } :
               k \in 1..n }

PlainDocs ==
  { <<OperationDefinitionNode(sel)>> :
      sel \in UNION { Forests(n) : n \in 1..MaxNodes } }

\* documents with one fragment F; H is spread but never defined
FragLeaves ==
  { FieldNode(<<"n","a","m","e">>, <<>>, <<>>, <<>>),
    FragmentSpreadNode(<<"F">>),
    FragmentSpreadNode(<<"H">>) }

FragItems ==
  FragLeaves
  \cup { FieldNode(<<"u","s","e","r">>, <<>>, <<>>, <<l>>) : l \in FragLeaves }
  \cup { InlineFragmentNode(<<l>>) : l \in FragLeaves }

FragmentDocs ==
  { <<OperationDefinitionNode(sel), FragmentDefinitionNode(<<"F">>, <<body>>)>> :
      sel \in { <<a>> : a \in FragItems }
              \cup { <<a, b>> : a \in FragItems, b \in FragItems },
      body \in FragItems }

\* a field whose argument values are literals, variables or lists
ArgValues ==
  {StringValueNode(<<"u","1">>), StringValueNode(<<"t","r","u","e">>), IntValueNode(<<"4","2">>),
   VariableNode(<<"x">>), ListValueNode}

ArgumentDocs ==
  { <<OperationDefinitionNode(
        <<FieldNode(<<"u","s","e","r">>, <<>>, arguments, selections)>>)>> :
      arguments \in { <<Arg(<<"i","d">>, v)>> : v \in ArgValues }
                    \cup { <<Arg(<<"i","d">>, v), Arg(<<"n","a","m","e">>, w)>> :
                             v \in ArgValues, w \in ArgValues },
      selections \in { <<>>, <<FieldNode(<<"n","a","m","e">>, <<>>, <<>>, <<>>)>> } }

\* documents that hold fragment definitions only
NoOperationDocs ==
  { <<FragmentDefinitionNode(<<"F">>, <<body>>)>> : body \in FragItems }

\* documents with two operation definitions
TwoOperationDocs ==
  { <<OperationDefinitionNode(first), OperationDefinitionNode(second)>> :
      first \in Forests(1), second \in Forests(1) \cup Forests(2) }

\* the queries of the end-to-end scenarios
ScenarioDocs ==
  { <<OperationDefinitionNode(
        <<FieldNode(<<"p","r","o","j","e","c","t">>, <<>>, <<>>,
            <<FieldNode(<<"t","a","g","l","i","n","e">>, <<>>, <<>>, <<>>)>>)>>)>>,
    <<OperationDefinitionNode(
        <<FieldNode(<<"p","r","o","j","e","c","t">>, <<>>,
            <<Arg(<<"n","a","m","e">>, StringValueNode(<<"G","r","a","p","h","Q","L">>))>>,
            <<FieldNode(<<"t","a","g","l","i","n","e">>, <<>>, <<>>, <<>>)>>)>>)>>,
    <<OperationDefinitionNode(
        <<FieldNode(<<"u","s","e","r","s">>, <<>>,
            <<Arg(<<"m","i","n","A","g","e">>, IntValueNode(<<"1","8">>)),
              Arg(<<"m","a","x","A","g","e">>, IntValueNode(<<"6","5">>))>>,
            <<FieldNode(<<"n","a","m","e">>, <<>>, <<>>, <<>>)>>)>>)>>,
    <<OperationDefinitionNode(
        <<FieldNode(<<"u","s","e","r">>, <<>>, <<Arg(<<"i","d">>, StringValueNode(<<"u","1">>))>>,
            <<FieldNode(<<"f","r","i","e","n","d","s">>, <<>>, <<>>,
                <<FieldNode(<<"n","a","m","e">>, <<>>, <<>>, <<>>)>>)>>)>>)>>,
    <<OperationDefinitionNode(
        <<FieldNode(<<"u","s","e","r">>, <<>>, <<>>,
            <<FieldNode(<<"f","r","i","e","n","d","s">>, <<>>, <<>>,
                <<FieldNode(<<"n","a","m","e">>, <<>>, <<>>, <<>>)>>)>>)>>)>> }

SameNameArgs ==
  { <<>>,
    <<Arg(<<"i","d">>, StringValueNode(<<"u","1">>))>>,
    <<Arg(<<"i","d">>, StringValueNode(<<"u","1">>)), Arg(<<"n","a","m","e">>, StringValueNode(<<"n","1">>))>> }

\* one field name selected twice at top level with different arguments
SameNameDocs ==
  { <<OperationDefinitionNode(
        <<FieldNode(<<"u","s","e","r">>, <<>>, first, <<selection>>),
          FieldNode(<<"u","s","e","r">>, <<>>, second,
            <<FieldNode(<<"f","r","i","e","n","d","s">>, <<>>, <<>>,
                <<FieldNode(<<"n","a","m","e">>, <<>>, <<>>, <<>>)>>)>>)>>)>> :
      first \in SameNameArgs, second \in SameNameArgs,
      selection \in { FieldNode(<<"n","a","m","e">>, <<>>, <<>>, <<>>),
                      FieldNode(<<"f","r","i","e","n","d","s">>, <<>>, <<>>,
                        <<FieldNode(<<"n","a","m","e">>, <<>>, <<>>, <<>>)>>) } }

QueryDocs ==
  PlainDocs \cup FragmentDocs \cup ArgumentDocs \cup NoOperationDocs
  \cup TwoOperationDocs \cup ScenarioDocs \cup SameNameDocs

---------------------------------------------------------------------------
(* The compilation pipeline of translate_graphql_to_xsb. *)

NoLines == <<>>

InitCompilation ==
  /\ pc = "start"
  /\ error = "none"
  /\ var_counter = 1
  /\ var_cache = {}
  /\ query = <<>>
  /\ parsed = <<>>
  /\ demand_facts = NoLines
  /\ demand_rules = NoLines
  /\ seen_demand_rules = {}
  /\ demand_info_map = <<>>
  /\ predicate_rules = NoLines
  /\ answer_rules = NoLines
  /\ output = <<>>
  /\ compiled = <<>>
  /\ facts = {}
  /\ code_no = <<>>
  /\ code_yes = <<>>
  /\ res_no = {}
  /\ res_yes = {}

Init ==
  /\ document \in QueryDocs
  /\ apply_demand \in BOOLEAN
  /\ InitCompilation

LogEntry(doc, demand, err, text) ==
  [document |-> doc, apply_demand |-> demand, error |-> err, output |-> text]

\* query = parse_query(query_path); an exception aborts the compilation
ParseQuery ==
  /\ pc = "start"
  /\ LET r == parse_query(document, fresh_parser_state) IN
     /\ var_counter' = r.st.counter
     /\ var_cache' = r.st.cache
     /\ error' = r.st.error
     /\ IF r.st.error = "none"
        THEN /\ query' = r.fields
             /\ parsed' = r.fields
             /\ pc' = "parsed"
             /\ UNCHANGED compiled
        ELSE /\ pc' = "failed"
             /\ compiled' = Append(compiled,
                              LogEntry(document, apply_demand, r.st.error, <<>>))
             /\ UNCHANGED <<query, parsed>>
  /\ UNCHANGED <<document, apply_demand, demand_facts, demand_rules,
                 seen_demand_rules, demand_info_map, predicate_rules,
                 answer_rules, output, facts, code_no, code_yes, res_no, res_yes>>

\* lines 716-730: the demand stage
DemandTransformation ==
  /\ pc = "parsed"
  /\ IF apply_demand
     THEN LET r == demand_roots(query, 1,
                     [acc |-> [demands |-> <<Comment(<<"%"," ","D","e","m","a","n","d"," ","t","r","a","n","s","f","o","r","m","a","t","i","o","n"," ","f","a","c","t","s"," ","a","n","d"," ","r","u","l","e","s">>)>>,
                               rules |-> <<>>, seen |-> {}],
                      map |-> <<>>])
          IN /\ demand_facts' = r.acc.demands
             /\ demand_rules' = r.acc.rules
             /\ seen_demand_rules' = r.acc.seen
             /\ demand_info_map' = r.map
     ELSE UNCHANGED <<demand_facts, demand_rules, seen_demand_rules,
                      demand_info_map>>
  /\ pc' = "demanded"
  /\ UNCHANGED <<document, apply_demand, error, var_counter, var_cache, query,
                 parsed, predicate_rules, answer_rules, output, compiled,
                 facts, code_no, code_yes, res_no, res_yes>>

\* lines 733-746: the rule stage
PredicateRules ==
  /\ pc = "demanded"
  /\ LET r == predicate_roots(query, 1, demand_info_map,
                              <<Comment(<<"%"," ","Q","u","e","r","y"," ","f","i","e","l","d"," ","r","u","l","e","s">>)>>, <<>>)
     IN /\ predicate_rules' = r.rules
        /\ query' = r.fields
  /\ pc' = "emitted"
  /\ UNCHANGED <<document, apply_demand, error, var_counter, var_cache, parsed,
                 demand_facts, demand_rules, seen_demand_rules, demand_info_map,
                 answer_rules, output, compiled,
                 facts, code_no, code_yes, res_no, res_yes>>

\* lines 749-753: the answer stage
AnswerPredicate ==
  /\ pc = "emitted"
  /\ answer_rules' = generate_answer_predicate(query, <<>>)
  /\ pc' = "answered"
  /\ UNCHANGED <<document, apply_demand, error, var_counter, var_cache, query,
                 parsed, demand_facts, demand_rules, seen_demand_rules,
                 demand_info_map, predicate_rules, output, compiled,
                 facts, code_no, code_yes, res_no, res_yes>>

\* lines 756-763: the text is joined and returned
ReturnOutput ==
  /\ pc = "answered"
  /\ output' = result_text(query, apply_demand, demand_facts, demand_rules,
                           predicate_rules, answer_rules, demand_info_map)
  /\ compiled' = Append(compiled,
                   LogEntry(document, apply_demand, "none", output'))
  /\ pc' = "done"
  /\ UNCHANGED <<document, apply_demand, error, var_counter, var_cache, query,
                 parsed, demand_facts, demand_rules, seen_demand_rules,
                 demand_info_map, predicate_rules, answer_rules,
                 facts, code_no, code_yes, res_no, res_yes>>

Next ==
  \/ ParseQuery
  \/ DemandTransformation
  \/ PredicateRules
  \/ AnswerPredicate
  \/ ReturnOutput

Spec == Init /\ [][Next]_vars


---------------------------------------------------------------------------
(* Running a generated program on a fact base (tests.py, exec_xsb).  The   *)
(* answers are read declaratively: the atoms of the least Herbrand model   *)
(* of facts and clauses.  The two programs of a comparison are read over   *)
(* one set of constants, those of both programs and of the facts, so that  *)
(* an answer with an unbound variable stands for the same ground tuples in *)
(* both.  A predicate with no clause and no fact is empty.                 *)

Atom(pred, args) == [pred |-> pred, args |-> args]

\* Prolog reads a term that starts with a capital or "_" as a variable
is_variable(t) ==
  t # <<>> /\ (IndexIn(t[1], UpperChars) # 0 \/ t[1] = "_")

is_number(t) == t # <<>> /\ \A i \in 1..Len(t) : IndexIn(t[i], DigitChars) # 0

is_string(t) == t # <<>> /\ t[1] = "\""

RECURSIVE number_value(_)
number_value(t) ==
  IF t = <<>> THEN 0
  ELSE 10 * number_value(SubSeq(t, 1, Len(t) - 1))
       + (IndexIn(t[Len(t)], DigitChars) - 1)

\* character codes, in ASCII order, of the characters terms are written in
CodeOrder == <<"\"">> \o DigitChars \o UpperChars \o <<"_">> \o LowerChars

RECURSIVE text_geq(_, _)
text_geq(a, b) ==
  IF b = <<>> THEN TRUE
  ELSE IF a = <<>> THEN FALSE
  ELSE IF a[1] = b[1] THEN text_geq(Tail(a), Tail(b))
  ELSE IndexIn(a[1], CodeOrder) > IndexIn(b[1], CodeOrder)

\* the standard order of terms: numbers, then atoms, then strings (lists)
term_rank(t) == IF is_number(t) THEN 1 ELSE IF is_string(t) THEN 3 ELSE 2

term_geq(a, b) ==
  IF term_rank(a) # term_rank(b) THEN term_rank(a) > term_rank(b)
  ELSE IF is_number(a) THEN number_value(a) >= number_value(b)
  ELSE text_geq(a, b)

\* a substitution is a set of <<variable, constant>> pairs
is_bound(sub, t) == ~is_variable(t) \/ \E b \in sub : b[1] = t

value_of(sub, t) ==
  IF is_variable(t) THEN (CHOOSE b \in sub : b[1] = t)[2] ELSE t

unbound_vars(sub, terms) ==
  {terms[i] : i \in {j \in 1..Len(terms) : ~is_bound(sub, terms[j])}}

\* every extension of sub that binds the variables vs in the universe
extensions(sub, vs, universe) ==
  { sub \cup { <<v, f[v]>> : v \in vs } : f \in [vs -> universe] }

RECURSIVE match_args(_, _, _, _)
match_args(args, vals, i, sub) ==
  IF i > Len(args) THEN {sub}
  ELSE IF is_bound(sub, args[i])
  THEN IF value_of(sub, args[i]) = vals[i]
       THEN match_args(args, vals, i + 1, sub)
       ELSE {}
  ELSE match_args(args, vals, i + 1, sub \cup {<<args[i], vals[i]>>})

infix_holds(op, a, b) ==
  IF op = <<"=">> THEN a = b
  ELSE IF op = <<"@",">","=">> THEN term_geq(a, b)
  ELSE IF op = <<"@","=","<">> THEN term_geq(b, a)
  ELSE FALSE

solve_goal(goal, sub, db, universe) ==
  IF goal.kind = "infix"
  THEN { s \in extensions(sub, unbound_vars(sub, goal.args), universe) :
           infix_holds(goal.pred, value_of(s, goal.args[1]),
                       value_of(s, goal.args[2])) }
  ELSE IF goal.pred = <<"t","r","u","e">> /\ goal.args = <<>> THEN {sub}
  ELSE UNION { match_args(goal.args, a.args, 1, sub) :
               a \in { x \in db : x.pred = goal.pred
                                  /\ Len(x.args) = Len(goal.args) } }

RECURSIVE solve_body(_, _, _, _, _)
solve_body(body, i, subs, db, universe) ==
  IF i > Len(body) \/ subs = {} THEN subs
  ELSE solve_body(body, i + 1,
         UNION { solve_goal(body[i], s, db, universe) : s \in subs },
         db, universe)

ground_heads(head, sub, universe) ==
  { Atom(head.pred, [i \in 1..Len(head.args) |-> value_of(s, head.args[i])]) :
      s \in extensions(sub, unbound_vars(sub, head.args), universe) }

consequences(clause, db, universe) ==
  UNION { ground_heads(clause.head, s, universe) :
          s \in solve_body(clause.body, 1, {{}}, db, universe) }

goal_constants(goal) ==
  {goal.args[i] : i \in {j \in 1..Len(goal.args) : ~is_variable(goal.args[j])}}

clause_constants(clause) ==
  goal_constants(clause.head)
  \cup UNION {goal_constants(clause.body[i]) : i \in 1..Len(clause.body)}

herbrand_universe(program, base) ==
  UNION {clause_constants(program[i]) : i \in 1..Len(program)}
  \cup UNION {{a.args[i] : i \in 1..Len(a.args)} : a \in base}

\* one round of the immediate-consequence operator
derive(program, universe, db) ==
  db \cup UNION { consequences(program[i], db, universe) :
                  i \in 1..Len(program) }

\* the answers the driver prints: the argument tuples of the ans atoms
ans_tuples(db) == { a.args : a \in { x \in db : x.pred = <<"a","n","s">> } }

generated_clauses ==
  clauses_of(demand_facts \o demand_rules \o predicate_rules \o answer_rules)

---------------------------------------------------------------------------
(* run_test_for_dir: compile without demand, compile with demand, run      *)
(* both programs on the same facts and compare the answers.                *)

\* a root field, a field below it and a field below that
Chains ==
  { <<FieldNode(a.name, <<>>, a.arguments,
        <<FieldNode(b.name, <<>>, b.arguments,
            <<FieldNode(c.name, <<>>, c.arguments, <<>>)>>)>>)>> :
      a \in FieldLabels, b \in FieldLabels, c \in FieldLabels }

EvalDocs ==
  { <<OperationDefinitionNode(sel)>> :
      sel \in Chains \cup UNION { Forests(n) : n \in 1..MaxEvalNodes } }

FactPool ==
  { Atom(<<"u","s","e","r","_","e","x","t">>, <<<<"u","1">>>>),
    Atom(<<"u","s","e","r","_","e","x","t">>, <<<<"r">>>>),
    Atom(<<"u","s","e","r","s","_","e","x","t">>, <<<<"r">>>>),
    Atom(<<"u","s","e","r","_","e","x","t">>, <<<<"r">>, <<"u","1">>>>),
    Atom(<<"i","d","_","e","x","t">>, <<<<"r">>, <<"\"","u","1","\"">>>>),
    Atom(<<"n","a","m","e","_","e","x","t">>, <<<<"u","1">>, <<"a","n","n">>>>),
    Atom(<<"n","a","m","e","_","e","x","t">>, <<<<"r">>, <<"b","o","b">>>>),
    Atom(<<"a","g","e","_","e","x","t">>, <<<<"u","1">>, <<"2","0">>>>),
    Atom(<<"a","c","t","i","v","e","_","e","x","t">>, <<<<"u","1">>, <<"t","r","u","e">>>>) }

FactBases ==
  { base \in SUBSET FactPool :
      Cardinality(FactPool \ base) <= MaxMissingFacts }

ResetLocals ==
  /\ error' = "none"
  /\ query' = <<>>
  /\ parsed' = <<>>
  /\ demand_facts' = NoLines
  /\ demand_rules' = NoLines
  /\ seen_demand_rules' = {}
  /\ demand_info_map' = <<>>
  /\ predicate_rules' = NoLines
  /\ answer_rules' = NoLines
  /\ output' = <<>>

\* lines 100-102 of tests.py: code_no is kept, the second compilation starts
KeepCodeNo ==
  /\ pc = "done"
  /\ ~apply_demand
  /\ code_no = <<>>
  /\ code_no' = generated_clauses
  /\ apply_demand' = TRUE
  /\ pc' = "start"
  /\ ResetLocals
  /\ UNCHANGED <<document, var_counter, var_cache, compiled, facts, code_yes,
                 res_no, res_yes>>

\* lines 103-135 of tests.py: code_yes is kept, the drivers load facts.P
KeepCodeYes ==
  /\ pc = "done"
  /\ apply_demand
  /\ code_no # <<>>
  /\ code_yes = <<>>
  /\ code_yes' = generated_clauses
  /\ \E base \in FactBases :
       /\ facts' = base
       /\ res_no' = base
       /\ res_yes' = base
  /\ pc' = "running"
  /\ UNCHANGED <<document, apply_demand, error, var_counter, var_cache, query,
                 parsed, demand_facts, demand_rules, seen_demand_rules,
                 demand_info_map, predicate_rules, answer_rules, output,
                 compiled, code_no>>

\* lines 154-160 of tests.py: both programs run to completion
RunXsb ==
  /\ pc = "running"
  /\ LET universe == herbrand_universe(code_no \o code_yes, facts) IN
     /\ res_no' = derive(code_no, universe, res_no)
     /\ res_yes' = derive(code_yes, universe, res_yes)
  /\ pc' = IF res_no' = res_no /\ res_yes' = res_yes THEN "compared"
           ELSE "running"
  /\ UNCHANGED <<document, apply_demand, error, var_counter, var_cache, query,
                 parsed, demand_facts, demand_rules, seen_demand_rules,
                 demand_info_map, predicate_rules, answer_rules, output,
                 compiled, facts, code_no, code_yes>>

InitEval ==
  /\ document \in EvalDocs
  /\ apply_demand = FALSE
  /\ InitCompilation

NextEval == Next \/ KeepCodeNo \/ KeepCodeYes \/ RunXsb

SpecEval == InitEval /\ [][NextEval]_vars

---------------------------------------------------------------------------
(* Several compilations, one after the other, in one process. *)

RepeatDocs ==
  { <<OperationDefinitionNode(<<FieldNode(<<"n","a","m","e">>, <<>>, <<>>, <<>>)>>)>>,
    <<OperationDefinitionNode(
        <<FieldNode(<<"u","s","e","r">>, <<>>, <<Arg(<<"i","d">>, StringValueNode(<<"u","1">>))>>,
            <<FieldNode(<<"n","a","m","e">>, <<>>, <<>>, <<>>)>>)>>)>>,
    <<OperationDefinitionNode(
        <<FieldNode(<<"u","s","e","r","s">>, <<>>, <<Arg(<<"m","i","n","A","g","e">>, IntValueNode(<<"1","8">>))>>,
            <<FieldNode(<<"u","s","e","r">>, <<>>, <<>>,
                <<FieldNode(<<"n","a","m","e">>, <<>>, <<>>, <<>>)>>)>>)>>)>>,
    <<OperationDefinitionNode(
        <<FieldNode(<<"u","s","e","r">>, <<>>, <<>>, <<FragmentSpreadNode(<<"F">>)>>)>>),
      FragmentDefinitionNode(<<"F">>, <<FieldNode(<<"n","a","m","e">>, <<>>, <<>>, <<>>)>>)>>,
    <<OperationDefinitionNode(
        <<FieldNode(<<"u","s","e","r">>, <<>>, <<>>, <<FragmentSpreadNode(<<"H">>)>>)>>)>> }

\* the next call of translate_graphql_to_xsb
NextCompilation ==
  /\ pc \in {"done", "failed"}
  /\ Len(compiled) < MaxCompilations
  /\ document' \in RepeatDocs
  /\ apply_demand' \in BOOLEAN
  /\ pc' = "start"
  /\ ResetLocals
  /\ UNCHANGED <<var_counter, var_cache, compiled, facts, code_no, code_yes,
                 res_no, res_yes>>

InitRepeat ==
  /\ document \in RepeatDocs
  /\ apply_demand \in BOOLEAN
  /\ InitCompilation

NextRepeat == Next \/ NextCompilation

SpecRepeat == InitRepeat /\ [][NextRepeat]_vars


---------------------------------------------------------------------------
(* The properties.  What they need of a selection tree or of a document is *)
(* computed here from the tree and the document themselves, not from the   *)
(* operators of the compiler.                                              *)

AfterParse == {"parsed", "demanded", "emitted", "answered", "done"}
AfterEmission == {"emitted", "answered", "done"}
AfterAnswer == {"answered", "done"}

\* the nodes of a selection tree: position, dotted path, variables, and the
\* child_var of the parent node (ROOT at top level)
RECURSIVE tree_nodes(_, _, _, _)
tree_nodes(fields, pos, parent_path, parent_child_var) ==
  UNION { LET f == fields[i]
              path == IF parent_path = <<>> THEN f.name
                      ELSE parent_path \o <<".">> \o f.name
          IN { [pos |-> Append(pos, i),
                path |-> path,
                child_var |-> f.child_var,
                parent_var |-> f.parent_var,
                expected_parent |-> parent_child_var,
                name |-> f.name] }
             \cup tree_nodes(f.subfields, Append(pos, i), path, f.child_var)
        : i \in 1..Len(fields) }

nodes_of(fields) == tree_nodes(fields, <<>>, <<>>, <<"R","O","O","T">>)

\* the scalar leaves of a tree in selection order, as "_"-joined paths
RECURSIVE leaf_paths(_, _)
RECURSIVE leaf_paths_from(_, _, _)
leaf_paths(fields, prefix) == leaf_paths_from(fields, 1, prefix)

leaf_paths_from(fields, i, prefix) ==
  IF i > Len(fields) THEN <<>>
  ELSE (IF fields[i].subfields = <<>>
        THEN <<prefix \o fields[i].name>>
        ELSE leaf_paths(fields[i].subfields, prefix \o fields[i].name \o <<"_">>))
       \o leaf_paths_from(fields, i + 1, prefix)

leaf_count(fields) == Len(leaf_paths(fields, <<>>))

ans_head == answer_rules[Len(answer_rules)].head

has_lower_case(text) == \E i \in 1..Len(text) : IndexIn(text[i], LowerChars) # 0

\* upper case computed letter by letter from the two alphabets
to_upper_case(text) ==
  [i \in 1..Len(text) |->
     IF IndexIn(text[i], LowerChars) # 0
     THEN UpperChars[IndexIn(text[i], LowerChars)]
     ELSE text[i]]

---------------------------------------------------------------------------

\* C1: when both programs of one query have run to completion on the same
\* fact base, the ans tuples of the program compiled without demand are
\* exactly the ans tuples of the program compiled with demand.
C1_DemandKeepsAnswers ==
  pc = "compared" => ans_tuples(res_no) = ans_tuples(res_yes)

\* a comparison with at least one answer where the demand program has a seed
\* fact and a magic goal
C1_Witness ==
  /\ pc = "compared"
  /\ ans_tuples(res_no) # {}
  /\ \E i \in 1..Len(code_yes) :
       /\ code_yes[i].body = <<>>
       /\ startswith(code_yes[i].head.pred, <<"d","e","m","a","n","d","_">>)
  /\ \E i \in 1..Len(code_yes) : \E k \in 1..Len(code_yes[i].body) :
       /\ endswith(code_yes[i].head.pred, <<"_","r","e","s","u","l","t">>)
       /\ startswith(code_yes[i].body[k].pred, <<"m","_">>)

\* C2: the head of the ans rule has one argument per scalar leaf of the
\* selection tree, a leaf counted once per occurrence, and it is the bare
\* atom ans exactly when the tree has no leaf.
C2_AnsArityIsLeafCount ==
  pc \in AfterAnswer =>
    /\ ans_head.pred = <<"a","n","s">>
    /\ Len(ans_head.args) = leaf_count(query)
    /\ (render_goal(ans_head) = <<"a","n","s">>) <=> (leaf_count(query) = 0)

\* an ans rule whose head lists the same leaf twice
C2_Witness ==
  /\ pc \in AfterAnswer
  /\ \E i, j \in 1..Len(ans_head.args) :
       i < j /\ ans_head.args[i] = ans_head.args[j]

\* C3: after parsing, two nodes of the selection tree have the same
\* child_var exactly when they have the same dotted path.
C3_ChildVarPerPath ==
  pc \in AfterParse =>
    \A a, b \in nodes_of(query) :
      (a.path = b.path) <=> (a.child_var = b.child_var)

\* a tree with one path selected twice and with two different paths that
\* end in the same field name
C3_Witness ==
  /\ pc \in AfterParse
  /\ \E a, b \in nodes_of(query) : a.pos # b.pos /\ a.path = b.path
  /\ \E a, b \in nodes_of(query) : a.path # b.path /\ a.name = b.name

linked(node) == node.parent_var = node.expected_parent

\* C4: in every state of a compilation after parsing (parsed, demand
\* analysed, rules emitted, answer assembled), every node's parent_var is
\* the child_var of its parent node, ROOT at top level.
C4_ParentLinkEverywhere ==
  pc \in AfterParse => \A n \in nodes_of(query) : linked(n)

\* C5: two compilations of the same document with the same apply_demand,
\* whatever was compiled before or between them, end alike: the same text
\* or the same failure.
C5_SameInputSameOutput ==
  \A i, j \in 1..Len(compiled) :
    (/\ compiled[i].document = compiled[j].document
     /\ compiled[i].apply_demand = compiled[j].apply_demand)
    => (/\ compiled[i].output = compiled[j].output
        /\ compiled[i].error = compiled[j].error)

\* the same input compiled first and third, another document in between
C5_Witness ==
  /\ Len(compiled) = 3
  /\ compiled[1].document = compiled[3].document
  /\ compiled[1].apply_demand = compiled[3].apply_demand
  /\ compiled[2].document # compiled[1].document
  /\ compiled[1].output # <<>>
  /\ compiled[2].output # <<>>
  /\ var_counter > 1

\* C6: in a compilation with demand, no two rule or fact lines of the
\* demand section and the query-field-rule section have the same text.
C6_RuleTextsAppearOnce ==
  (apply_demand /\ pc \in AfterEmission) =>
    LET lines == clauses_of(demand_facts \o demand_rules \o predicate_rules)
    IN \A i, j \in 1..Len(lines) :
         i # j => render_line(lines[i]) # render_line(lines[j])

\* C7: when the tree has a scalar leaf, the head of the ans rule lists, leaf
\* by leaf, the upper case of the leaf's path joined with "_", and no
\* argument of the head has a lower-case letter.
C7_HeadVariablesUpperCase ==
  (pc \in AfterAnswer /\ leaf_count(query) > 0) =>
    /\ Len(ans_head.args) = leaf_count(query)
    /\ \A i \in 1..Len(ans_head.args) :
         /\ ans_head.args[i] = to_upper_case(leaf_paths(query, <<>>)[i])
         /\ ~has_lower_case(ans_head.args[i])

\* a head variable of a leaf two levels down
C7_Witness ==
  /\ pc \in AfterAnswer
  /\ \E i \in 1..Len(ans_head.args) :
       /\ Len(ans_head.args[i]) > 1
       /\ \E k, m \in 1..Len(ans_head.args[i]) :
            k < m /\ ans_head.args[i][k] = "_" /\ ans_head.args[i][m] = "_"

---------------------------------------------------------------------------
(* Fragments, read off the document. *)

definition_names(doc) ==
  {doc[i].name : i \in {j \in 1..Len(doc) : doc[j].kind = "FragmentDefinition"}}

definition_of(doc, name) ==
  CHOOSE d \in {doc[i] : i \in 1..Len(doc)} :
    d.kind = "FragmentDefinition" /\ d.name = name

\* the fragment names spread anywhere in a selection set
RECURSIVE spread_names(_)
spread_names(selections) ==
  UNION { IF selections[i].kind = "FragmentSpread"
          THEN {selections[i].name}
          ELSE spread_names(selections[i].selections)
        : i \in 1..Len(selections) }

RECURSIVE reachable_fragments(_, _)
reachable_fragments(doc, names) ==
  LET next == names \cup
              UNION { spread_names(definition_of(doc, n).selections) :
                      n \in names \cap definition_names(doc) }
  IN IF next = names THEN names ELSE reachable_fragments(doc, next)

\* a fragment that reaches itself: directly, through a field or an inline
\* fragment of its selection set, or through another fragment
cyclic(doc) ==
  \E f \in definition_names(doc) :
    f \in reachable_fragments(doc, spread_names(definition_of(doc, f).selections))

\* a spread, anywhere in the document, of a name with no definition
undefined_spread(doc) ==
  \E i \in 1..Len(doc) :
    spread_names(doc[i].selections) \ definition_names(doc) # {}

well_formed(doc) == ~cyclic(doc) /\ ~undefined_spread(doc)

\* the fields of a selection set with every spread and inline fragment
\* replaced, at its position, by the fields it stands for
RECURSIVE expand_selections(_, _)
expand_selections(doc, selections) ==
  IF selections = <<>> THEN <<>>
  ELSE
    LET s == Head(selections)
        first ==
          CASE s.kind = "Field" ->
                 <<[name |-> IF s.alias # <<>> THEN s.alias ELSE s.name,
                    kids |-> expand_selections(doc, s.selections)]>>
            [] s.kind = "FragmentSpread" ->
                 expand_selections(doc, definition_of(doc, s.name).selections)
            [] s.kind = "InlineFragment" ->
                 expand_selections(doc, s.selections)
    IN first \o expand_selections(doc, Tail(selections))

RECURSIVE expected_tree(_, _)
expected_tree(doc, d) ==
  IF d > Len(doc) THEN <<>>
  ELSE (IF doc[d].kind = "OperationDefinition"
        THEN expand_selections(doc, doc[d].selections)
        ELSE <<>>)
       \o expected_tree(doc, d + 1)

RECURSIVE name_tree(_)
name_tree(fields) ==
  [i \in 1..Len(fields) |->
     [name |-> fields[i].name, kids |-> name_tree(fields[i].subfields)]]

RECURSIVE expected_leaves(_)
expected_leaves(tree) ==
  IF tree = <<>> THEN 0
  ELSE (IF tree[1].kids = <<>> THEN 1 ELSE expected_leaves(tree[1].kids))
       + expected_leaves(Tail(tree))

---------------------------------------------------------------------------

\* C8: for a document whose spreads are all defined and acyclic, the
\* selection tree is the operation's selections with every spread and inline
\* fragment, at the root and inside fragments too, replaced in place by the
\* fields it stands for, and ans has one argument per scalar leaf of that
\* tree.
C8_FragmentsInlinedEverywhere ==
  (pc \in AfterParse /\ well_formed(document)) =>
    /\ name_tree(query) = expected_tree(document, 1)
    /\ pc \in AfterAnswer =>
         Len(ans_head.args) = expected_leaves(expected_tree(document, 1))

\* C9: a document with a fragment cycle is never parsed into a tree: the
\* parse ends in the FragmentCycle error, with no tree and no output.
C9_FragmentCycleReported ==
  (cyclic(document) /\ pc # "start") =>
    /\ pc = "failed"
    /\ error = "FragmentCycle"
    /\ query = <<>>
    /\ output = <<>>

\* C10: a document with a spread of an undefined fragment is never parsed
\* into a tree: the parse ends in the FragmentUndefined error, with no
\* output.
C10_UndefinedFragmentReported ==
  (undefined_spread(document) /\ pc # "start") =>
    /\ pc = "failed"
    /\ error = "FragmentUndefined"
    /\ output = <<>>

---------------------------------------------------------------------------
(* Arguments and operations, read off the document. *)

\* the argument value kinds of every field selected anywhere below
RECURSIVE argument_kinds(_)
argument_kinds(selections) ==
  UNION { {selections[i].arguments[k].value.kind :
             k \in 1..Len(selections[i].arguments)}
          \cup argument_kinds(selections[i].selections)
        : i \in 1..Len(selections) }

\* a field argument whose value is a variable, a list or an input object
unsupported_argument(doc) ==
  \E i \in 1..Len(doc) :
    argument_kinds(doc[i].selections)
      \cap {"Variable", "ListValue", "ObjectValue"} # {}

operations(doc) == SelectSeq(doc, LAMBDA d : d.kind = "OperationDefinition")

\* C11: a document with a field argument that is a variable, a list or an
\* input object is never compiled: the compilation ends in the
\* UnsupportedArgument error with no output, so no tree exists from which
\* the argument could be missing.
C11_UnsupportedArgumentReported ==
  (unsupported_argument(document) /\ pc # "start") =>
    /\ pc = "failed"
    /\ error = "UnsupportedArgument"
    /\ query = <<>>
    /\ output = <<>>

\* C12: a document without an operation definition is never compiled: the
\* compilation ends in the NoOperation error and returns no text.
C12_NoOperationReported ==
  (operations(document) = <<>> /\ pc # "start") =>
    /\ pc = "failed"
    /\ error = "NoOperation"
    /\ output = <<>>

\* C13: when the document has several operation definitions, the top-level
\* nodes of the selection tree are the root selections of the first one, and
\* nothing else.
C13_OnlyFirstOperation ==
  (Len(operations(document)) > 1 /\ pc \in AfterParse) =>
    name_tree(query) =
      expand_selections(document, operations(document)[1].selections)

---------------------------------------------------------------------------
(* The emitted rules, set against the tree as it was parsed. *)

\* the nodes of a tree with the "_"-joined path that names their rule, their
\* depth and the node they are selected under
RECURSIVE rule_nodes(_, _, _, _)
rule_nodes(fields, prefix, depth, above) ==
  UNION { { [field |-> fields[i],
             rule_path |-> prefix \o fields[i].name,
             depth |-> depth,
             above |-> above] }
          \cup rule_nodes(fields[i].subfields,
                          prefix \o fields[i].name \o <<"_">>, depth + 1,
                          <<fields[i]>>)
        : i \in 1..Len(fields) }

parsed_nodes == rule_nodes(parsed, <<>>, 0, <<>>)

rule_set(lines) == {lines[i] : i \in {j \in 1..Len(lines) : lines[j].kind = "clause"}}

nested_scalar_leaves ==
  {n \in parsed_nodes : n.depth > 0 /\ n.field.subfields = <<>>}

\* the leaves selected without arguments wherever their path is selected
plain_nested_leaves ==
  {n \in nested_scalar_leaves :
     \A m \in nested_scalar_leaves :
       m.rule_path = n.rule_path => m.field.arguments = <<>>}

\* the rules emitted for a scalar leaf: head <path>_result with two arguments
leaf_rules(n) ==
  {r \in rule_set(predicate_rules) :
     r.head.pred = n.rule_path \o <<"_","r","e","s","u","l","t">> /\ Len(r.head.args) = 2}

\* C14 as stated: without demand, every rule of a nested scalar leaf has the
\* head <path>_result(P, T) and the single body goal <path>_ext(P, T), the
\* external predicate named by the whole path.
C14_LeafRuleUsesPathExt ==
  (~apply_demand /\ pc \in AfterEmission) =>
    \A n \in nested_scalar_leaves :
      /\ leaf_rules(n) # {}
      /\ \A r \in leaf_rules(n) :
           r.body = <<[kind |-> "call", pred |-> n.rule_path \o <<"_","e","x","t">>,
                       args |-> r.head.args]>>

\* C14: without demand, every rule of a nested scalar leaf selected without
\* arguments has the head <path>_result(P, T), P the leaf's parent_var and T
\* its child_var, and the single body goal <name>_ext(P, T): the external
\* predicate is named by the leaf's own field name, not by its path.
C14_LeafRuleUsesNameExt ==
  (~apply_demand /\ pc \in AfterEmission) =>
    \A n \in plain_nested_leaves :
      /\ leaf_rules(n) # {}
      /\ \A r \in leaf_rules(n) :
           /\ r.head.args = <<n.field.parent_var, n.field.child_var>>
           /\ r.body = <<[kind |-> "call", pred |-> n.field.name \o <<"_","e","x","t">>,
                         args |-> r.head.args]>>

\* the rule of tagline under project has been emitted without demand
C14_Witness ==
  /\ ~apply_demand
  /\ pc \in AfterEmission
  /\ \E n \in nested_scalar_leaves :
       /\ n.rule_path = <<"p","r","o","j","e","c","t","_","t","a","g","l","i","n","e">>
       /\ \E r \in leaf_rules(n) : render_line(r) =
            <<"p","r","o","j","e","c","t","_","t","a","g","l","i","n","e","_","r","e","s","u","l","t","(","P","R","O","J","E","C","T","_","1",","," ","T","A","G","L","I","N","E","_","2",")"," ",":","-"," ","t","a","g","l","i","n","e","_","e","x","t","(","P","R","O","J","E","C","T","_","1",","," ","T","A","G","L","I","N","E","_","2",")",".">>

root_object_nodes ==
  {n \in parsed_nodes : n.depth = 0 /\ n.field.subfields # <<>>}

\* a value spelled true or false in any mix of cases
spelled_boolean(value) == to_upper_case(value) \in {<<"T","R","U","E">>, <<"F","A","L","S","E">>}

\* the arguments of a node that ask for an exact match on a lookup key
exact_match_arguments(n) ==
  {n.field.arguments[k] : k \in
     {j \in 1..Len(n.field.arguments) :
        /\ n.field.arguments[j][1] \in {<<"i","d">>, <<"n","a","m","e">>, <<"k","e","y">>, <<"s","l","u","g">>, <<"c","o","d","e">>}
        /\ ~spelled_boolean(n.field.arguments[j][2])}}

quoted(value) == <<"\"">> \o value \o <<"\"">>

\* the rules emitted under the name of an object node
object_rules(n) ==
  {r \in rule_set(predicate_rules) :
     r.head.pred = n.rule_path \o <<"_","r","e","s","u","l","t">> /\ Len(r.head.args) = 1}

has_goal(r, goal) == \E k \in 1..Len(r.body) : r.body[k] = goal

filter_goal(name, var, value) ==
  [kind |-> "call", pred |-> name \o <<"_","e","x","t">>, args |-> <<var, quoted(value)>>]

\* C15 as stated: for a root object node with an exact-match argument (a, v)
\* a result rule of the node has the goal a_ext(X, "v") with X the node's own
\* variable, its child_var.
C15_FilterOnChildVar ==
  pc \in AfterEmission =>
    \A n \in root_object_nodes : \A arg \in exact_match_arguments(n) :
      \E r \in object_rules(n) :
        has_goal(r, filter_goal(arg[1], n.field.child_var, arg[2]))

\* C15: for a root object node with an exact-match argument (a, v), v not
\* spelled true or false, a result rule <name>_result(ROOT) of the node has
\* the goal a_ext(ROOT, "v"): the filter is about the node's parent_var,
\* and no result rule of the node has the goal a_ext(X, "v") with X the
\* node's child_var.
C15_FilterOnParentVar ==
  pc \in AfterEmission =>
    \A n \in root_object_nodes : \A arg \in exact_match_arguments(n) :
      /\ \E r \in object_rules(n) :
           /\ r.head.args = <<<<"R","O","O","T">>>>
           /\ has_goal(r, filter_goal(arg[1], <<"R","O","O","T">>, arg[2]))
      /\ \A r \in object_rules(n) :
           ~has_goal(r, filter_goal(arg[1], n.field.child_var, arg[2]))

\* the rule of project(name: "GraphQL") has been emitted
C15_Witness ==
  /\ pc \in AfterEmission
  /\ \E n \in root_object_nodes :
       /\ <<<<"n","a","m","e">>, <<"G","r","a","p","h","Q","L">>>> \in exact_match_arguments(n)
       /\ \E r \in object_rules(n) : render_line(r) =
            <<"p","r","o","j","e","c","t","_","r","e","s","u","l","t","(","R","O","O","T",")"," ",":","-"," ","p","r","o","j","e","c","t","_","e","x","t","(","R","O","O","T",")",","," ","n","a","m","e","_","e","x","t","(","R","O","O","T",","," ","\"","G","r","a","p","h","Q","L","\"",")",".">>

---------------------------------------------------------------------------
(* Demand, set against the tree as it was parsed. *)

\* one B per argument, "_" for none
adornment_of(field) ==
  IF field.arguments = <<>> THEN <<"_">>
  ELSE [k \in 1..Len(field.arguments) |-> "B"]

demand_name(field) == <<"d","e","m","a","n","d","_">> \o field.name \o <<"_">> \o adornment_of(field)

magic_name(field) == <<"m","_">> \o field.name \o <<"_">> \o adornment_of(field)

quoted_values(field) ==
  [k \in 1..Len(field.arguments) |-> quoted(field.arguments[k][2])]

goal(pred, args) == [kind |-> "call", pred |-> pred, args |-> args]

rule(head, body) == [kind |-> "clause", head |-> head, body |-> body, text |-> <<>>]

roots_with_arguments == {i \in 1..Len(parsed) : parsed[i].arguments # <<>>}

\* the rule emitted for the i-th top-level node: the line that follows the
\* i-th "Rules for field" comment
root_rule_positions ==
  SelectSeq([k \in 1..Len(predicate_rules) |-> k],
            LAMBDA k : /\ predicate_rules[k].kind = "comment"
                       /\ predicate_rules[k].text # <<"%"," ","Q","u","e","r","y"," ","f","i","e","l","d"," ","r","u","l","e","s">>)

root_rule(i) == predicate_rules[root_rule_positions[i] + 1]

\* the last top-level node with arguments that has the name of the i-th
last_of_name(i) ==
  CHOOSE j \in roots_with_arguments :
    /\ parsed[j].name = parsed[i].name
    /\ \A k \in roots_with_arguments : parsed[k].name = parsed[i].name => k <= j

---------------------------------------------------------------------------
(* Filtered collections, read off the tree as it was parsed. *)

to_lower_case(text) ==
  [i \in 1..Len(text) |->
     IF IndexIn(text[i], UpperChars) # 0
     THEN LowerChars[IndexIn(text[i], UpperChars)]
     ELSE text[i]]

begins_with(text, prefix) ==
  Len(text) >= Len(prefix) /\ SubSeq(text, 1, Len(prefix)) = prefix

is_range_argument(arg) == begins_with(arg[1], <<"m","i","n">>) \/ begins_with(arg[1], <<"m","a","x">>)

\* an object node with arguments, one of them a range or a boolean, none
\* of them a lookup key
filtered_collections ==
  {n \in parsed_nodes :
     /\ n.field.subfields # <<>>
     /\ \E k \in 1..Len(n.field.arguments) :
          \/ is_range_argument(n.field.arguments[k])
          \/ spelled_boolean(n.field.arguments[k][2])
     /\ \A k \in 1..Len(n.field.arguments) :
          n.field.arguments[k][1] \notin {<<"i","d">>, <<"n","a","m","e">>, <<"k","e","y">>, <<"s","l","u","g">>, <<"c","o","d","e">>}}

range_arguments(n) ==
  {n.field.arguments[k] : k \in
     {j \in 1..Len(n.field.arguments) : is_range_argument(n.field.arguments[j])}}

singular_of(name) ==
  IF name[Len(name)] = "s" THEN SubSeq(name, 1, Len(name) - 1) ELSE name

record_id(n) == to_upper_case(singular_of(n.field.name)) \o <<"_","I","D">>

\* the field a range argument bounds: minAge and maxAge bound age
bounded_field(arg) == to_lower_case(SubSeq(arg[1], 4, Len(arg[1])))

comparison(arg) == IF begins_with(arg[1], <<"m","i","n">>) THEN <<"@",">","=">> ELSE <<"@","=","<">>

\* a rule with the record goal of n and, for every range argument, the
\* value goal and the comparison on the variable <F>_<suffix>
has_range_filters(r, n, suffix) ==
  /\ has_goal(r, goal(singular_of(n.field.name) \o <<"_","e","x","t">>,
                       <<n.field.parent_var, record_id(n)>>))
  /\ \A arg \in range_arguments(n) :
       LET v == to_upper_case(bounded_field(arg)) \o <<"_">> \o suffix
       IN /\ has_goal(r, goal(bounded_field(arg) \o <<"_","e","x","t">>, <<record_id(n), v>>))
          /\ has_goal(r, [kind |-> "infix", pred |-> comparison(arg),
                          args |-> <<v, arg[2]>>])

\* C17 as stated: the result rule of a filtered collection has the record
\* goal <singular>_ext(<parent>, <SINGULAR>_ID) and, per range argument, the
\* goals <f>_ext(<SINGULAR>_ID, V) and V @>= v or V @=< v with the
\* comparison variable V = <F>_<SINGULAR>_ID.
C17_ComparisonOnRecordVar ==
  pc \in AfterEmission =>
    \A n \in filtered_collections :
      \E r \in object_rules(n) : has_range_filters(r, n, record_id(n))

\* C17: the result rule of a filtered collection has the record goal
\* <singular>_ext(<parent>, <SINGULAR>_ID) and, per range argument min<F> or
\* max<F> with value v, the goals <f>_ext(<SINGULAR>_ID, V) and V @>= v (min)
\* or V @=< v (max): the first argument of the filter is the record
\* variable, the comparison variable V is <F>_<child_var>, built from the
\* node's child_var.
C17_ComparisonOnChildVar ==
  pc \in AfterEmission =>
    \A n \in filtered_collections :
      \E r \in object_rules(n) : has_range_filters(r, n, n.field.child_var)

\* the rule of users(minAge: 18, maxAge: 65) has been emitted
C17_Witness ==
  /\ pc \in AfterEmission
  /\ \E n \in filtered_collections :
       /\ Cardinality(range_arguments(n)) = 2
       /\ \E r \in object_rules(n) : render_line(r) =
            <<"u","s","e","r","s","_","r","e","s","u","l","t","(","R","O","O","T",")"," ",":","-"," ","u","s","e","r","s","_","e","x","t","(","R","O","O","T",")",","," ","u","s","e","r","_","e","x","t","(","R","O","O","T",","," ","U","S","E","R","_","I","D",")",","," ","a","g","e","_","e","x","t","(","U","S","E","R","_","I","D",","," ","A","G","E","_","U","S","E","R","S","_","1",")",","," ","A","G","E","_","U","S","E","R","S","_","1"," ","@",">","="," ","1","8",","," ","a","g","e","_","e","x","t","(","U","S","E","R","_","I","D",","," ","A","G","E","_","U","S","E","R","S","_","1",")",","," ","A","G","E","_","U","S","E","R","S","_","1"," ","@","=","<"," ","6","5",".">>

---------------------------------------------------------------------------
(* Demand propagation. *)

AfterDemand == {"demanded", "emitted", "answered", "done"}

\* the nodes the analyser applies demand to: a top-level node with
\* arguments and every node below one
demanded_nodes ==
  UNION { rule_nodes(<<parsed[i]>>, <<>>, 0, <<>>) : i \in roots_with_arguments }

\* the propagation rule from node n to its child c
propagation(n, c) ==
  rule(goal(demand_name(c), <<c.parent_var>>),
       <<goal(magic_name(n), <<n.parent_var>>),
         goal(n.name \o <<"_","e","x","t">>, <<n.parent_var, c.parent_var>>)>>)

object_children(field) ==
  {field.subfields[k] : k \in
     {j \in 1..Len(field.subfields) : field.subfields[j].subfields # <<>>}}

scalar_children(field) ==
  {field.subfields[k] : k \in
     {j \in 1..Len(field.subfields) : field.subfields[j].subfields = <<>>}}

expected_propagations ==
  UNION { {propagation(n.field, c) : c \in object_children(n.field)} :
          n \in demanded_nodes }

\* the rules of the demand section with two body goals, in output order
emitted_propagations ==
  SelectSeq(demand_rules, LAMBDA l : l.kind = "clause" /\ Len(l.body) = 2)

\* C18: with demand, the propagation rules of the output are, each exactly
\* once, the rules demand_<c.name>_<c.ad>(<c.parent_var>) :-
\* m_<n.name>_<n.ad>(<n.parent_var>), <n.name>_ext(<n.parent_var>,
\* <c.parent_var>) of the demanded nodes n and their non-scalar children c;
\* no rule is emitted for a scalar child.
C18_OnePropagationPerObjectChild ==
  (apply_demand /\ pc \in AfterDemand) =>
    /\ {emitted_propagations[i] : i \in 1..Len(emitted_propagations)}
         = expected_propagations
    /\ \A i, j \in 1..Len(emitted_propagations) :
         i # j => emitted_propagations[i] # emitted_propagations[j]

\* user(id: "u1") { friends { name } } selected twice and analysed: the rule
\* for friends, a demanded node with a scalar child, is in the output once
C18_Witness ==
  /\ apply_demand
  /\ pc \in AfterDemand
  /\ Len(parsed) = 2
  /\ parsed[1] = parsed[2]
  /\ Len(emitted_propagations) = 1
  /\ render_line(emitted_propagations[1]) =
       <<"d","e","m","a","n","d","_","f","r","i","e","n","d","s","_","_","(","U","S","E","R","_","1",")"," ",":","-"," ","m","_","u","s","e","r","_","B","(","R","O","O","T",")",","," ","u","s","e","r","_","e","x","t","(","R","O","O","T",","," ","U","S","E","R","_","1",")",".">>
  /\ \E n \in demanded_nodes :
       n.depth = 1 /\ scalar_children(n.field) # {} /\ object_children(n.field) = {}

\* the magic rule of a node: from its seed values when it has arguments,
\* from its demand predicate otherwise
magic_rule_for(field) ==
  IF field.arguments # <<>>
  THEN rule(goal(magic_name(field), <<field.parent_var>>),
            <<goal(demand_name(field), quoted_values(field))>>)
  ELSE rule(goal(magic_name(field), <<field.parent_var>>),
            <<goal(demand_name(field), <<field.parent_var>>)>>)

\* the demand rule of a nested node without arguments
demand_rule_for(field) ==
  rule(goal(demand_name(field), <<field.parent_var>>),
       <<goal(<<"m","_">> \o field.name \o <<"_","e","x","t">>, <<field.parent_var>>)>>)

\* C19: with demand, every node with an argument and every nested node has
\* its magic rule in the output, a nested node without arguments its demand
\* rule too, also below a top-level node without arguments, and a top-level
\* node without arguments has neither.
C19_EveryNodeAnalysed ==
  (apply_demand /\ pc \in AfterDemand) =>
    \A n \in parsed_nodes :
      IF n.field.arguments # <<>> \/ n.depth > 0
      THEN /\ magic_rule_for(n.field) \in rule_set(demand_rules)
           /\ n.field.arguments = <<>> =>
                demand_rule_for(n.field) \in rule_set(demand_rules)
      ELSE \A r \in rule_set(demand_facts \o demand_rules) :
             r.head # goal(magic_name(n.field), <<<<"R","O","O","T">>>>)
             /\ r.head # goal(demand_name(n.field), <<<<"R","O","O","T">>>>)

\* the predicates a rule mentions
predicates_of(r) == {r.head.pred} \cup {r.body[k].pred : k \in 1..Len(r.body)}

is_demand_predicate(pred) == begins_with(pred, <<"d","e","m","a","n","d","_">>) \/ begins_with(pred, <<"m","_">>)

\* the rules emitted under the name of a node
node_rules(n) ==
  {r \in rule_set(predicate_rules) :
     /\ r.head.pred = n.rule_path \o <<"_","r","e","s","u","l","t">>
     /\ Len(r.head.args) = IF n.field.subfields = <<>> THEN 2 ELSE 1}

\* C20: with demand, every demanded node, top-level or nested, has a result
\* rule whose body starts with the node's magic goal
\* m_<name>_<ad>(<parent_var>); without demand no emitted rule mentions a
\* demand_ or m_ predicate.
C20_MagicGoalFirst ==
  /\ (apply_demand /\ pc \in AfterEmission) =>
       \A n \in demanded_nodes :
         \E r \in node_rules(n) :
           r.body[1] = goal(magic_name(n.field), <<n.field.parent_var>>)
  /\ (~apply_demand /\ pc \in AfterEmission) =>
       \A r \in rule_set(demand_facts \o demand_rules \o predicate_rules
                          \o answer_rules) :
         \A p \in predicates_of(r) : ~is_demand_predicate(p)

---------------------------------------------------------------------------
(* The ans rule, set against the tree as it was parsed and against the     *)
(* emitted rules.                                                          *)

ans_body == answer_rules[Len(answer_rules)].body

\* the four goals of the record-iteration prologue of a collection
prologue_of(field) ==
  <<goal(field.name \o <<"_","e","x","t">>, <<<<"R","O","O","T">>>>),
    goal(field.name \o <<"_","r","e","s","u","l","t">>, <<<<"R","O","O","T">>>>),
    goal(singular_of(field.name) \o <<"_","e","x","t">>,
         <<<<"R","O","O","T">>, to_upper_case(singular_of(field.name)) \o <<"_","I","D">>>>),
    [kind |-> "infix", pred |-> <<"=">>,
     args |-> <<to_upper_case(singular_of(field.name)) \o <<"_","1">>,
                to_upper_case(singular_of(field.name)) \o <<"_","I","D">>>>]>>

\* the ans body starts with the prologue of some top-level node
has_prologue ==
  /\ Len(ans_body) >= 4
  /\ \E i \in 1..Len(parsed) : SubSeq(ans_body, 1, 4) = prologue_of(parsed[i])

root_filtered_collections == {n \in filtered_collections : n.depth = 0}

\* the rule of some top-level node has the record goal of that node
record_goal_emitted ==
  \E i \in 1..Len(parsed) :
    has_goal(root_rule(i),
             goal(singular_of(parsed[i].name) \o <<"_","e","x","t">>,
                  <<<<"R","O","O","T">>, to_upper_case(singular_of(parsed[i].name)) \o <<"_","I","D">>>>))

\* C21: the ans rule has the record-iteration prologue exactly when some
\* top-level node is a filtered collection (an object node with a range or
\* boolean argument and no lookup argument), which is exactly when the
\* emitter added the record goal to a top-level node's result rule.
C21_SameFilteredDecision ==
  pc \in AfterAnswer =>
    /\ has_prologue <=> root_filtered_collections # {}
    /\ has_prologue <=> record_goal_emitted

\* the body goals accumulated for the tree, repeated texts removed, before
\* any prologue is spliced in (unique_body_parts at line 622)
accumulated_goals ==
  unique_parts(process_roots(query, 1,
                 [body_parts |-> <<>>, field_vars |-> <<>>]).body_parts, 1, {})

\* C22: when the prologue of a collection is spliced in, the ans body is the
\* four prologue goals followed, in their order, by every accumulated goal
\* other than <plural>_ext(ROOT) and <plural>_result(ROOT); nothing else is
\* removed.
C22_SpliceDropsOnlyRootGoals ==
  (pc \in AfterAnswer /\ has_prologue) =>
    \E i \in 1..Len(parsed) :
      ans_body = prologue_of(parsed[i]) \o
        SelectSeq(accumulated_goals,
                  LAMBDA g : /\ g # goal(parsed[i].name \o <<"_","e","x","t">>, <<<<"R","O","O","T">>>>)
                             /\ g # goal(parsed[i].name \o <<"_","r","e","s","u","l","t">>, <<<<"R","O","O","T">>>>))

\* the nodes selected directly under node n
children_of(n) ==
  {m \in parsed_nodes :
     /\ m.depth = n.depth + 1
     /\ m.above = <<n.field>>
     /\ m.rule_path = n.rule_path \o <<"_">> \o m.field.name}

\* C23: the rules of the children of a filtered collection have the record
\* variable <SINGULAR>_ID of the collection as first argument of their head
\* and of their external goal.
C23_ChildrenUseRecordVar ==
  pc \in AfterEmission =>
    \A n \in filtered_collections : \A m \in children_of(n) :
      /\ node_rules(m) # {}
      /\ \A r \in node_rules(m) :
           /\ r.head.args[1] = record_id(n)
           /\ \E k \in 1..Len(r.body) :
                /\ r.body[k].pred = m.field.name \o <<"_","e","x","t">>
                /\ r.body[k].args[1] = record_id(n)

root_objects == {i \in 1..Len(parsed) : parsed[i].subfields # <<>>}

\* the goal that links a top-level node to one of its children
linking_goal(field, child) ==
  goal(field.name \o <<"_">> \o child.name \o <<"_","r","e","s","u","l","t">>,
       <<field.child_var, child.child_var>>)

\* the body the tree { <name> { leaf ... } } is to have: the two goals of the
\* object and one result goal per leaf
plain_object_body(field) ==
  <<goal(field.name \o <<"_","e","x","t">>, <<field.child_var>>),
    goal(field.name \o <<"_","r","e","s","u","l","t">>, <<<<"R","O","O","T">>>>)>>
  \o [k \in 1..Len(field.subfields) |->
        goal(field.name \o <<"_">> \o field.subfields[k].name \o <<"_","r","e","s","u","l","t">>,
             <<field.child_var,
               to_upper_case(field.name \o <<"_">> \o field.subfields[k].name)>>)]

\* C24: the ans body has the linking goal
\* <name>_<child.name>_result(<child_var>, <child.child_var>) of a child of
\* a top-level object node exactly when the child is non-scalar, and for a
\* single top-level object without arguments whose children are all scalar
\* and differently named the body is <name>_ext(<child_var>),
\* <name>_result(ROOT) and one result goal per leaf, nothing more.
C24_LinkGoalsForObjectChildren ==
  pc \in AfterAnswer =>
    /\ \A i \in root_objects : \A k \in 1..Len(parsed[i].subfields) :
         has_goal(answer_rules[Len(answer_rules)],
                  linking_goal(parsed[i], parsed[i].subfields[k]))
         <=> parsed[i].subfields[k].subfields # <<>>
    /\ (/\ Len(parsed) = 1
        /\ parsed[1].arguments = <<>>
        /\ scalar_children(parsed[1]) # {}
        /\ object_children(parsed[1]) = {}
        /\ \A j, k \in 1..Len(parsed[1].subfields) :
             j # k => parsed[1].subfields[j].name # parsed[1].subfields[k].name)
       => ans_body = plain_object_body(parsed[1])

Digits == {"0", "1", "2", "3", "4", "5", "6", "7", "8", "9"}

\* a decimal integer literal
is_numeric(value) ==
  value # <<>> /\ \A k \in 1..Len(value) : value[k] \in Digits

numeric_positions(field) ==
  {k \in 1..Len(field.arguments) : is_numeric(field.arguments[k][2])}

\* the arguments of a node that ask for an exact match on a number
numeric_matches(field) ==
  {field.arguments[k] : k \in
     {j \in numeric_positions(field) : ~is_range_argument(field.arguments[j])}}

\* C25: a numeric argument value is emitted bare, with its source text: in
\* the exact-match filter goal of its node and, with demand, in the seed
\* fact and in the body of the magic rule of a top-level node.
C25_NumbersAreBare ==
  pc \in AfterEmission =>
    /\ \A n \in parsed_nodes : \A arg \in numeric_matches(n.field) :
         \E r \in node_rules(n) : \E k \in 1..Len(r.body) :
           /\ r.body[k].pred = arg[1] \o <<"_","e","x","t">>
           /\ r.body[k].args[2] = arg[2]
    /\ apply_demand =>
         \A i \in roots_with_arguments :
           /\ \E r \in rule_set(demand_facts) :
                /\ r.head.pred = demand_name(parsed[i])
                /\ \A k \in numeric_positions(parsed[i]) :
                     r.head.args[k] = parsed[i].arguments[k][2]
           /\ \E r \in rule_set(demand_rules) :
                /\ r.head = goal(magic_name(parsed[i]), <<<<"R","O","O","T">>>>)
                /\ r.body[1].pred = demand_name(parsed[i])
                /\ \A k \in numeric_positions(parsed[i]) :
                     r.body[1].args[k] = parsed[i].arguments[k][2]

\* the body goals in the order the assembler accumulated them, repeated
\* texts included (body_parts at line 614)
body_parts_of(root_fields) ==
  process_roots(root_fields, 1, [body_parts |-> <<>>, field_vars |-> <<>>]).body_parts

first_occurrence(parts, g) ==
  CHOOSE k \in 1..Len(parts) :
    parts[k] = g /\ \A j \in 1..(k - 1) : parts[j] # g

\* the goals of the ans body that come after the prologue, if there is one
kept_goals == IF has_prologue THEN SubSeq(ans_body, 5, Len(ans_body)) ELSE ans_body

\* C26: no two goals of the ans body have the same text, and the goals
\* kept from the accumulated sequence stand in the order of their first
\* occurrence there, with and without the record-iteration prologue.
C26_BodyGoalsOnceInOrder ==
  (pc \in AfterAnswer /\ ans_head.args # <<>>) =>
    LET body_parts == body_parts_of(query)
        kept == kept_goals
        position == [a \in 1..Len(kept) |->
                       IF \E k \in 1..Len(body_parts) : body_parts[k] = kept[a]
                       THEN first_occurrence(body_parts, kept[a]) ELSE 0]
    IN /\ \A a, b \in 1..Len(ans_body) :
            a # b => render_goal(ans_body[a]) # render_goal(ans_body[b])
       /\ \A a \in 1..Len(kept) : position[a] # 0
       /\ \A a, b \in 1..Len(kept) : a < b => position[a] < position[b]

\* a body whose accumulated goals had a repeated text, with the prologue
\* spliced in before goals that were kept
C26_Witness ==
  /\ pc \in AfterAnswer
  /\ has_prologue
  /\ Len(kept_goals) > 1
  /\ \E a, b \in 1..Len(body_parts_of(query)) :
       a < b /\ body_parts_of(query)[a] = body_parts_of(query)[b]

\* generate_xsb_for_query on a tree: the text it returns and the tree it
\* leaves behind
generate_xsb_for_query(fields, demand) ==
  LET d == IF demand
           THEN demand_roots(fields, 1,
                  [acc |-> [demands |-> <<Comment(<<"%"," ","D","e","m","a","n","d"," ","t","r","a","n","s","f","o","r","m","a","t","i","o","n"," ","f","a","c","t","s"," ","a","n","d"," ","r","u","l","e","s">>)>>,
                            rules |-> <<>>, seen |-> {}],
                   map |-> <<>>])
           ELSE [acc |-> [demands |-> <<>>, rules |-> <<>>, seen |-> {}],
                 map |-> <<>>]
      p == predicate_roots(fields, 1, d.map,
                           <<Comment(<<"%"," ","Q","u","e","r","y"," ","f","i","e","l","d"," ","r","u","l","e","s">>)>>, <<>>)
      a == generate_answer_predicate(p.fields, <<>>)
  IN [text |-> result_text(p.fields, demand, d.acc.demands, d.acc.rules,
                           p.rules, a, d.map),
      fields |-> p.fields]

\* C27: the stages after parsing only read the tree: in every later state
\* the tree is the tree as parsed, and a second call of
\* generate_xsb_for_query on the tree the first call leaves returns the
\* text of the first.
C27_TreeIsReadOnly ==
  /\ pc \in AfterParse => query = parsed
  /\ pc = "done" => generate_xsb_for_query(query, apply_demand).text = output

is_result_goal(g) ==
  /\ g.kind = "call"
  /\ Len(g.pred) >= 7
  /\ SubSeq(g.pred, Len(g.pred) - 6, Len(g.pred)) = <<"_","r","e","s","u","l","t">>

names_nested_node(pred) ==
  \E n \in parsed_nodes : n.depth > 0 /\ pred = n.rule_path \o <<"_","r","e","s","u","l","t">>

\* C28: every <p>_result goal of the ans body has an emitted rule with that
\* name and that number of arguments, and when <p> names a nested node,
\* with the goal's first argument as first argument of its head.
C28_ResultGoalsAreDefined ==
  pc \in AfterAnswer =>
    \A k \in 1..Len(ans_body) :
      is_result_goal(ans_body[k]) =>
        \E r \in rule_set(predicate_rules) :
          /\ r.head.pred = ans_body[k].pred
          /\ Len(r.head.args) = Len(ans_body[k].args)
          /\ names_nested_node(ans_body[k].pred) =>
               r.head.args[1] = ans_body[k].args[1]

\* the terms that occur in the goals of a body
body_terms(body) == UNION { {body[k].args[j] : j \in 1..Len(body[k].args)} : k \in 1..Len(body) }

\* C29: every variable of the head of ans occurs in a goal of its body.
C29_AnsIsRangeRestricted ==
  pc \in AfterAnswer =>
    \A k \in 1..Len(ans_head.args) : ans_head.args[k] \in body_terms(ans_body)

emitted_rules == rule_set(demand_facts \o demand_rules \o predicate_rules)

\* C30: with demand, every demand_ or m_ predicate in the body of an
\* emitted rule is the head predicate, with the same number of arguments,
\* of an emitted seed fact or rule.
C30_DemandGoalsAreDefined ==
  (apply_demand /\ pc \in AfterEmission) =>
    \A r \in emitted_rules : \A k \in 1..Len(r.body) :
      is_demand_predicate(r.body[k].pred) =>
        \E d \in emitted_rules :
          /\ d.head.pred = r.body[k].pred
          /\ Len(d.head.args) = Len(r.body[k].args)
====
